---- MODULE Spec2Model ----
(***************************************************************************)
(* crowbar: the action store (SQLite tables actions, program_items,        *)
(* desktop_items, action_executions), the ranking queries over it, the     *)
(* system scan that fills it, and the registry / list view that show and   *)
(* execute the ranked actions.                                             *)
(*                                                                         *)
(* Text is a sequence of one-character strings.  Time is counted in ticks  *)
(* of TickMinutes minutes.  The f64 scores of the code are exact rationals *)
(* here: a score is carried as an integer numerator over a fixed           *)
(* denominator and truncated (`as usize`) by integer division.             *)
(***************************************************************************)
EXTENDS Integers, Sequences, FiniteSets

VARIABLES
    actions,            \* table actions: rows [id, name, searchname, action_type]
    program_items,      \* table program_items: rows [id, name, path]
    desktop_items,      \* table desktop_items: rows [id, name, exec, accepts_args]
    action_executions,  \* table action_executions: rows [action_id, execution_timestamp]
    now,                \* the wall clock, in ticks
    discovered,         \* what the filesystem holds: [executables, applications]
    ret,                \* the last call and what it returned
    calls,              \* the insert calls that have returned: [args, id]
    filter,             \* ActionListView.filter
    selected_index,     \* ActionListView.selected_index
    filtered_actions,   \* ActionRegistry.filtered_actions
    scans,              \* the scan tasks spawned so far, one record each
    handler_rows,       \* table handlers: rows [id, enabled]
    history_cache,      \* HISTORY_CACHE: [some, entries]
    last_cache_update,  \* LAST_CACHE_UPDATE, in seconds
    seconds,            \* the wall clock's seconds past the tick
    history_dbs,        \* the browsers' history databases, one list of rows each
    files,              \* the files the scanners read: [desktop, path], and with them the browsers' files
    readers,            \* the callers of get_history_entries_for_query: [pc, query, entries]
    locks               \* who holds the mutexes of the two statics: [cache, last_update]

vars == <<actions, program_items, desktop_items, action_executions, now,
          discovered, ret, calls, filter, selected_index, filtered_actions, scans,
          handler_rows, history_cache, last_cache_update, seconds, history_dbs, files,
          readers, locks>>

tables == <<actions, program_items, desktop_items, action_executions, handler_rows>>
\* What no call to the store or the view changes: the filesystem, the statics of the
\* history handler, the seconds, the browsers' databases
background == <<discovered, history_cache, last_cache_update, seconds, history_dbs, files,
                readers, locks>>
view == <<filter, selected_index, filtered_actions>>

---------------------------------------------------------------------------
(* Bounds of the model *)

MaxTime == 2
MaxExec == 2
MaxInserts == 3
MaxTasks == 2
MaxRuns == 1
MaxEntries == 3
MaxWaits == 3
MaxVisits == 1
RunsEach == 3

---------------------------------------------------------------------------
(* Text *)

\* The characters the model uses, in code-point order (String's Ord is bytewise).
Alphabet == <<" ", "-", ":", "F", "_", "a", "b", "c", "d", "e", "f", "g", "h", "i", "l",
              "n", "o", "p", "r", "s", "t", "v", "x", "z">>

CharCode(c) == CHOOSE i \in DOMAIN Alphabet : Alphabet[i] = c

IsWhitespace(c) == c = " "
IsAlphanumeric(c) == c \notin {" ", "-", ":", "_"}

ToLowerChar(c) == IF c = "F" THEN "f" ELSE c
ToLowercase(s) == [i \in 1..Len(s) |-> ToLowerChar(s[i])]

StartsWith(s, p) == Len(p) <= Len(s) /\ SubSeq(s, 1, Len(p)) = p
Contains(s, p) == \E i \in 0..(Len(s) - Len(p)) : SubSeq(s, i + 1, i + Len(p)) = p

IsBlank(s) == \A i \in 1..Len(s) : IsWhitespace(s[i])

\* str::split_whitespace: the maximal runs of non-whitespace characters.
RECURSIVE SplitFrom(_, _, _)
SplitFrom(s, i, cur) ==
    IF i > Len(s) THEN (IF cur = <<>> THEN <<>> ELSE <<cur>>)
    ELSE IF IsWhitespace(s[i])
         THEN (IF cur = <<>> THEN <<>> ELSE <<cur>>) \o SplitFrom(s, i + 1, <<>>)
         ELSE SplitFrom(s, i + 1, Append(cur, s[i]))
SplitWhitespace(s) == SplitFrom(s, 1, <<>>)

\* String::cmp: lexicographic on code points, a proper prefix first.
RECURSIVE StrLessFrom(_, _, _)
StrLessFrom(a, b, i) ==
    IF i > Len(a) THEN i <= Len(b)
    ELSE IF i > Len(b) THEN FALSE
    ELSE IF a[i] = b[i] THEN StrLessFrom(a, b, i + 1)
    ELSE CharCode(a[i]) < CharCode(b[i])
StrLess(a, b) == StrLessFrom(a, b, 1)

\* SQLite's LIKE '%' || p || '%' and LIKE p || '%' for a pattern without % or _:
\* case-insensitive on ASCII letters.
LikeContains(text, p) == Contains(ToLowercase(text), ToLowercase(p))
LikePrefix(text, p) == StartsWith(ToLowercase(text), ToLowercase(p))

\* Action::insert's searchname: the alphanumeric and whitespace characters, lowercased.
SearchName(name) ==
    ToLowercase(SelectSeq(name, LAMBDA c : IsAlphanumeric(c) \/ IsWhitespace(c)))

---------------------------------------------------------------------------
(* Action ids *)

\* format!("{}", id) for the ids the model reaches.
Decimal == <<"1", "2", "3", "4", "5", "6", "7", "8", "9", "10", "11", "12", "13", "14">>

Dynamic(n) == [tag |-> "Dynamic", n |-> n, s |-> ""]
Builtin(s) == [tag |-> "Builtin", n |-> 0, s |-> s]

\* ActionId::as_str
AsStr(id) == IF id.tag = "Builtin" THEN id.s ELSE Decimal[id.n]

\* The comparison `ae.action_id = a.id` of a TEXT column with an INTEGER column:
\* the text is converted to a number when it is the decimal text of one.
TextEqualsInteger(text, n) == n \in DOMAIN Decimal /\ Decimal[n] = text

---------------------------------------------------------------------------
(* The tables: one operator per SQL statement *)

RowIds(tbl) == {tbl[i].id : i \in DOMAIN tbl}
SetMax(S) == CHOOSE m \in S : \A x \in S : x <= m
\* INTEGER PRIMARY KEY without a value: one more than the largest rowid.
NextRowId(tbl) == IF tbl = <<>> THEN 1 ELSE SetMax(RowIds(tbl)) + 1

\* A faulty variant of InsertOrIgnoreAction: a plain INSERT that does not see the
\* UNIQUE(name, action_type) conflict.
InsertActionNoConflict(tbl, name, action_type) ==
    Append(tbl, [id |-> NextRowId(tbl), name |-> name,
                 searchname |-> SearchName(name), action_type |-> action_type])

\* INSERT OR IGNORE INTO actions (name, searchname, action_type)
InsertOrIgnoreAction(tbl, name, action_type) ==
    IF \E i \in DOMAIN tbl : tbl[i].name = name /\ tbl[i].action_type = action_type
    THEN tbl
    ELSE Append(tbl, [id |-> NextRowId(tbl), name |-> name,
                      searchname |-> SearchName(name), action_type |-> action_type])

\* SELECT id FROM actions WHERE name = ?1 AND action_type = ?2 (0: no row, an error)
SelectActionId(tbl, name, action_type) ==
    IF \E i \in DOMAIN tbl : tbl[i].name = name /\ tbl[i].action_type = action_type
    THEN tbl[CHOOSE i \in DOMAIN tbl :
                /\ tbl[i].name = name /\ tbl[i].action_type = action_type
                /\ \A j \in DOMAIN tbl :
                      (tbl[j].name = name /\ tbl[j].action_type = action_type) => i <= j].id
    ELSE 0

\* INSERT OR IGNORE INTO program_items (id, name, path): PRIMARY KEY id, UNIQUE(path, name)
InsertOrIgnoreProgramItem(tbl, id, name, path) ==
    IF \E i \in DOMAIN tbl : tbl[i].id = id \/ (tbl[i].path = path /\ tbl[i].name = name)
    THEN tbl
    ELSE Append(tbl, [id |-> id, name |-> name, path |-> path])

\* A faulty variant of InsertOrIgnoreDesktopItem: the row is stored whatever the table holds.
InsertDesktopItemNoConflict(tbl, id, name, exec, accepts_args) ==
    Append(tbl, [id |-> id, name |-> name, exec |-> exec, accepts_args |-> accepts_args])

\* INSERT OR IGNORE INTO desktop_items (id, name, exec, accepts_args):
\* PRIMARY KEY id, UNIQUE(exec, name)
InsertOrIgnoreDesktopItem(tbl, id, name, exec, accepts_args) ==
    IF \E i \in DOMAIN tbl : tbl[i].id = id \/ (tbl[i].exec = exec /\ tbl[i].name = name)
    THEN tbl
    ELSE Append(tbl, [id |-> id, name |-> name, exec |-> exec,
                      accepts_args |-> accepts_args])

\* A faulty variant of InsertExecution: INSERT OR REPLACE on a key action_id.
InsertExecutionReplace(tbl, action_id, timestamp) ==
    Append(SelectSeq(tbl, LAMBDA r : r.action_id # action_id),
           [action_id |-> action_id, execution_timestamp |-> timestamp])

\* INSERT INTO action_executions (action_id, execution_timestamp)
InsertExecution(tbl, action_id, timestamp) ==
    Append(tbl, [action_id |-> action_id, execution_timestamp |-> timestamp])

---------------------------------------------------------------------------
(* The store as one value, and the insert methods *)

Store(a, p, d) == [actions |-> a, program_items |-> p, desktop_items |-> d]
EmptyStore == Store(<<>>, <<>>, <<>>)
CurrentStore == Store(actions, program_items, desktop_items)

\* ProgramItem::insert (Database::insert_binary): Action::insert, then the item row.
ProgramItemInsert(st, name, path) ==
    LET a  == InsertOrIgnoreAction(st.actions, name, "program")
        id == SelectActionId(a, name, "program")
    IN  [store |-> Store(a, InsertOrIgnoreProgramItem(st.program_items, id, name, path),
                         st.desktop_items),
         id |-> id]

\* DesktopItem::insert
DesktopItemInsert(st, name, exec, accepts_args) ==
    LET a  == InsertOrIgnoreAction(st.actions, name, "desktop")
        id == SelectActionId(a, name, "desktop")
    IN  [store |-> Store(a, st.program_items,
                         InsertOrIgnoreDesktopItem(st.desktop_items, id, name, exec,
                                                   accepts_args)),
         id |-> id]

\* Database::insert_application: every application is stored with accepts_args = true.
InsertApplication(st, name, exec) == DesktopItemInsert(st, name, exec, TRUE)

\* Database::insert_binary
InsertBinary(st, name, path) == ProgramItemInsert(st, name, path)

---------------------------------------------------------------------------
(* Sorting and limits *)

\* A stable sort (Vec::sort_by, and SQLite's ORDER BY over a scan in rowid order):
\* an element goes after every element that is before it or ties with it from the left.
StableSort(s, Before(_, _)) ==
    LET v == s \o <<>>
        n == Len(v)
        rank == [i \in 1..n |->
                    Cardinality({j \in 1..n :
                        Before(v[j], v[i]) \/ (~Before(v[i], v[j]) /\ j < i)}) + 1] \o <<>>
    IN  [k \in 1..n |-> v[CHOOSE i \in 1..n : rank[i] = k]] \o <<>>

Min(a, b) == IF a < b THEN a ELSE b

\* LIMIT n / Vec::truncate(n)
Truncate(s, n) == IF Len(s) > n THEN SubSeq(s, 1, n) ELSE s

\* Iterator::map(..).collect()
Map(s, F(_)) == [i \in DOMAIN s |-> F(s[i])]

---------------------------------------------------------------------------
(* Time and the popularity score *)

\* One tick of the model's clock is twelve hours.
TickMinutes == 12 * 60
\* LAST_CACHE_UPDATE starts at UNIX_EPOCH; the model's clock starts a day after it.
UNIX_EPOCH == 0
SystemTimeNow(t, s) == 24 * 3600 + t * TickMinutes * 60 + s
\* The SQL's 24.0 * 60.0
MinutesPerDay == 24 * 60

RECURSIVE Gcd(_, _)
Gcd(a, b) == IF b = 0 THEN a ELSE Gcd(b, a % b)
Lcm(a, b) == (a * b) \div Gcd(a, b)

\* The decay 1.0 / (1.0 + age_minutes / 1440) of an execution k ticks old is the
\* fraction 1440 / (1440 + k * TickMinutes); Scale is a common denominator of the
\* decays of all ages the clock reaches, so that Scale * decay is an integer.
ReducedDen(k) ==
    (MinutesPerDay + k * TickMinutes) \div Gcd(MinutesPerDay, MinutesPerDay + k * TickMinutes)
RECURSIVE LcmUpTo(_)
LcmUpTo(k) == IF k = 0 THEN ReducedDen(0) ELSE Lcm(LcmUpTo(k - 1), ReducedDen(k))
Scale == LcmUpTo(MaxTime)

\* strftime('%H', t)
HourOfDay(t) == ((t * TickMinutes) \div 60) % 24

\* The rows of action_executions of a discovered action (ae.action_id = a.id)
ExecutionsOfAction(ex, n) == SelectSeq(ex, LAMBDA r : TextEqualsInteger(r.action_id, n))
\* The rows of action_executions with action_id = ?1
ExecutionsOfId(ex, text) == SelectSeq(ex, LAMBDA r : r.action_id = text)

RECURSIVE SumDecay(_, _, _)
SumDecay(rows, t, i) ==
    IF i > Len(rows) THEN 0
    ELSE ((Scale * MinutesPerDay)
             \div (MinutesPerDay + (t - rows[i].execution_timestamp) * TickMinutes))
         + SumDecay(rows, t, i + 1)
\* Scale * COALESCE(SUM(1.0 / (1.0 + age_minutes / (24.0 * 60.0))), 0)
DecaySum(rows, t) == SumDecay(rows, t, 1)

\* COUNT(*) of the rows executed in the current hour of day
SameHourCount(rows, t) ==
    Cardinality({i \in DOMAIN rows : HourOfDay(rows[i].execution_timestamp) = HourOfDay(t)})

\* The direct tier's base_score, as a numerator over 2 * Scale:
\* decay sum * (1.0 + 0.5 * same-hour count)
BaseScoreNum(ex, n, t) ==
    LET rows == ExecutionsOfAction(ex, n)
    IN  DecaySum(rows, t) * (2 + SameHourCount(rows, t))

\* The raw base score of the popular list and the fuzzy tier, over Scale
RankScoreNum(ex, n, t) == DecaySum(ExecutionsOfAction(ex, n), t)

RelevanceScale == 1000

\* Database::get_execution_count
GetExecutionCount(ex, text) == Len(ExecutionsOfId(ex, text))

\* A faulty variant of GetActionRelevance: the time bonus is left out.
GetActionRelevanceNoBonus(ex, text, t) ==
    LET rows == ExecutionsOfId(ex, text)
    IN  [relevance |-> (DecaySum(rows, t) * RelevanceScale) \div Scale,
         count |-> Len(rows)]

\* Database::get_action_relevance: ((rank_score * 1000.0) as usize, count)
GetActionRelevance(ex, text, t) ==
    LET rows == ExecutionsOfId(ex, text)
    IN  [relevance |-> (DecaySum(rows, t) * (2 + SameHourCount(rows, t)) * RelevanceScale)
                          \div (2 * Scale),
         count |-> Len(rows)]

---------------------------------------------------------------------------
(* The ranking queries of Database *)

PopularLimit == 10
DirectLimit == 5
FuzzyTrigger == 5
FuzzyCandidates == 100
FuzzyLimit == 10
MaxResults == 10
QualityExact == 100
QualityPrefix == 50
QualityContains == 10
QualityOther == 1
FuzzyWeight == 30
\* similarity > 0.1, as ThresholdDen * matches > total
ThresholdDen == 10

\* The LEFT JOIN columns program_path / desktop_exec are NULL when the item row is missing.
HasItem(st, a) ==
    IF a.action_type = "program"
    THEN \E i \in DOMAIN st.program_items : st.program_items[i].id = a.id
    ELSE \E i \in DOMAIN st.desktop_items : st.desktop_items[i].id = a.id

Ok(list) == [ok |-> TRUE, list |-> list]
Err == [ok |-> FALSE, list |-> <<>>]

\* The handler object built from a row: BinHandler for a program, AppHandler for a desktop entry.
Definition(a, relevance) ==
    [id |-> a.id, name |-> a.name, action_type |-> a.action_type, relevance |-> relevance]

\* ActionDefinition::get_relevance: AppHandler returns its relevance field; BinHandler
\* does not override the trait's default, which is 0.
GetRelevance(def) == IF def.action_type = "desktop" THEN def.relevance ELSE 0

\* stmt.query_map(..) collected into a Result: a row whose item column is NULL makes
\* row_to_action_definition fail, and with it the whole query.
CollectRows(st, rows, Def(_)) ==
    IF \E i \in DOMAIN rows : ~HasItem(st, rows[i].a) THEN Err
    ELSE Ok(Map(rows, Def))

\* The rows of get_popular_actions' SELECT before ORDER BY and LIMIT: every action
\* with its rank_score
RankedActions(st, ex, t) ==
    Map(st.actions, LAMBDA a : [a |-> a, score |-> RankScoreNum(ex, a.id, t)])

\* The handler of a row of get_popular_actions: relevance (rank_score * 1000.0) as usize
PopularDefinition(r) == Definition(r.a, (r.score * RelevanceScale) \div Scale)

\* A faulty variant of GetPopularActions: the LIMIT is missing.
GetPopularActionsNoLimit(st, ex, t) ==
    CollectRows(st, StableSort(RankedActions(st, ex, t), LAMBDA x, y : x.score > y.score),
                PopularDefinition)

\* Database::get_popular_actions: ORDER BY rank_score DESC LIMIT 10
GetPopularActions(st, ex, t) ==
    CollectRows(st,
                Truncate(StableSort(RankedActions(st, ex, t),
                                    LAMBDA x, y : x.score > y.score), PopularLimit),
                PopularDefinition)

\* Database::calculate_search_score, as a fraction [num, den]
SearchScore(tokens, searchname) ==
    LET sn == ToLowercase(searchname)
        words == SplitWhitespace(sn)
        tenths(tok) ==
            IF ~Contains(sn, tok) THEN 0
            ELSE IF StartsWith(sn, tok) THEN 15
            ELSE IF \E w \in DOMAIN words : StartsWith(words[w], tok) THEN 13
            ELSE 10
        RECURSIVE sum(_)
        sum(i) == IF i > Len(tokens) THEN 0 ELSE tenths(tokens[i]) + sum(i + 1)
    IN  IF tokens = <<>> THEN [num |-> 0, den |-> 1]
        ELSE [num |-> sum(1), den |-> 10 * Len(tokens)]

\* The CASE of the direct tier's SQL
MatchQuality(searchname, f) ==
    IF searchname = f THEN QualityExact
    ELSE IF LikePrefix(searchname, f) THEN QualityPrefix
    ELSE IF LikeContains(searchname, f) THEN QualityContains
    ELSE QualityOther

\* The WHERE of the direct tier's SQL
DirectMatch(a, f) == LikeContains(a.searchname, f) \/ LikeContains(a.name, f)

\* Database::row_to_action_definition: ((base_score * match_quality) * (1.0 + search_score)) as usize
DirectRelevance(base_num, quality, score) ==
    (base_num * quality * (score.den + score.num)) \div (2 * Scale * score.den)

\* Database::search_with_direct_match
SearchWithDirectMatch(st, ex, f, t) ==
    LET scored == Map(SelectSeq(st.actions, LAMBDA a : DirectMatch(a, f)),
                      LAMBDA a : [a |-> a,
                                  base |-> BaseScoreNum(ex, a.id, t),
                                  quality |-> MatchQuality(a.searchname, f)])
        tokens == SplitWhitespace(f)
    IN  CollectRows(st,
            Truncate(StableSort(scored, LAMBDA x, y :
                         x.quality > y.quality
                         \/ (x.quality = y.quality /\ x.base > y.base)), DirectLimit),
            LAMBDA r : Definition(r.a,
                           DirectRelevance(r.base, r.quality,
                                           SearchScore(tokens, r.a.searchname))))

\* Database::generate_trigrams
GenerateTrigrams(text) ==
    LET chars == ToLowercase(text)
    IN  IF Len(chars) < 3 THEN <<chars>>
        ELSE [i \in 1..(Len(chars) - 2) |-> SubSeq(chars, i, i + 2)]

\* Database::calculate_trigram_similarity, as a fraction [num, den]
CalculateTrigramSimilarity(trigrams1, trigrams2) ==
    LET matches == Cardinality({i \in DOMAIN trigrams1 :
                        \E j \in DOMAIN trigrams2 : trigrams2[j] = trigrams1[i]})
        total_unique == Len(trigrams1) + Len(trigrams2) - matches
    IN  IF trigrams1 = <<>> \/ trigrams2 = <<>> THEN [num |-> 0, den |-> 1]
        ELSE IF total_unique = 0 THEN [num |-> 1, den |-> 1]
        ELSE [num |-> matches, den |-> total_unique]

\* The fuzzy tier's relevance: (base_score * (1.0 + search_score + similarity * 30.0)) as usize
FuzzyRelevance(rank_num, score, sim) ==
    (rank_num * ((score.den + score.num) * sim.den + FuzzyWeight * sim.num * score.den))
        \div (Scale * score.den * sim.den)

\* Database::search_with_fuzzy_match after its SELECT: the candidates of a trigram
\* similarity above 0.1, by descending relevance, the first ten
FuzzyMatches(st, candidates, filter_trigrams, filter_tokens) ==
    LET sim(c) == CalculateTrigramSimilarity(filter_trigrams,
                                             GenerateTrigrams(c.a.searchname))
        handlers == Map(SelectSeq(candidates,
                                  LAMBDA c : ThresholdDen * sim(c).num > sim(c).den),
                        LAMBDA c : Definition(c.a,
                                       FuzzyRelevance(c.base,
                                           SearchScore(filter_tokens, c.a.searchname),
                                           sim(c))))
    IN  IF \E i \in DOMAIN candidates : ~HasItem(st, candidates[i].a) THEN Err
        ELSE Ok(Truncate(StableSort(handlers, LAMBDA x, y :
                             GetRelevance(x) > GetRelevance(y)), FuzzyLimit))

\* A faulty variant of SearchWithFuzzyMatch: the candidates are cut at the direct
\* tier's limit.
SearchWithFuzzyMatchFew(st, ex, f, filter_trigrams, filter_tokens, t) ==
    FuzzyMatches(st,
                 Truncate(StableSort(Map(st.actions, LAMBDA a :
                                         [a |-> a, base |-> RankScoreNum(ex, a.id, t)]),
                                     LAMBDA x, y : x.base > y.base), DirectLimit),
                 filter_trigrams, filter_tokens)

\* Database::search_with_fuzzy_match: ORDER BY base_score DESC LIMIT 100, then the
\* similarity filter
SearchWithFuzzyMatch(st, ex, f, filter_trigrams, filter_tokens, t) ==
    FuzzyMatches(st,
                 Truncate(StableSort(Map(st.actions, LAMBDA a :
                                         [a |-> a, base |-> RankScoreNum(ex, a.id, t)]),
                                     LAMBDA x, y : x.base > y.base), FuzzyCandidates),
                 filter_trigrams, filter_tokens)

\* A faulty variant of MergeMatches: the fuzzy matches are added whatever the number
\* of direct matches.
MergeMatchesAlways(direct, fuzzy) ==
    LET fresh == SelectSeq(fuzzy.list, LAMBDA m :
                     ~\E i \in DOMAIN direct.list : direct.list[i].id = m.id)
    IN  IF ~direct.ok \/ ~fuzzy.ok THEN Err
        ELSE Ok(Truncate(StableSort(direct.list \o fresh, LAMBDA x, y :
                    GetRelevance(x) > GetRelevance(y)
                    \/ (GetRelevance(x) = GetRelevance(y) /\ StrLess(x.name, y.name))),
                MaxResults))

\* A faulty variant of MergeMatches: every fuzzy match is added.
MergeMatchesNoSkip(direct, fuzzy) ==
    LET handlers == IF Len(direct.list) < FuzzyTrigger THEN direct.list \o fuzzy.list
                    ELSE direct.list
    IN  IF ~direct.ok THEN Err
        ELSE IF Len(direct.list) < FuzzyTrigger /\ ~fuzzy.ok THEN Err
        ELSE Ok(Truncate(StableSort(handlers, LAMBDA x, y :
                    GetRelevance(x) > GetRelevance(y)
                    \/ (GetRelevance(x) = GetRelevance(y) /\ StrLess(x.name, y.name))),
                MaxResults))

\* Database::get_actions_filtered after the two searches: the fuzzy matches not yet
\* in the list are added when the direct tier returned fewer than five; the sort by
\* get_relevance(), then by name; the limit.  The fuzzy tier is not run, and cannot
\* fail the call, when the direct tier returned five.
MergeMatches(direct, fuzzy) ==
    LET fresh == SelectSeq(fuzzy.list, LAMBDA m :
                     ~\E i \in DOMAIN direct.list : direct.list[i].id = m.id)
        handlers == IF Len(direct.list) < FuzzyTrigger THEN direct.list \o fresh
                    ELSE direct.list
    IN  IF ~direct.ok THEN Err
        ELSE IF Len(direct.list) < FuzzyTrigger /\ ~fuzzy.ok THEN Err
        ELSE Ok(Truncate(StableSort(handlers, LAMBDA x, y :
                    GetRelevance(x) > GetRelevance(y)
                    \/ (GetRelevance(x) = GetRelevance(y) /\ StrLess(x.name, y.name))),
                MaxResults))

\* Database::get_actions_filtered
GetActionsFiltered(st, ex, flt, t) ==
    LET f == ToLowercase(flt)
    IN  IF IsBlank(flt) THEN GetPopularActions(st, ex, t)
        ELSE MergeMatches(SearchWithDirectMatch(st, ex, f, t),
                          SearchWithFuzzyMatch(st, ex, f, GenerateTrigrams(f),
                                               SplitWhitespace(f), t))

---------------------------------------------------------------------------
(* The filesystem the scanners read, and the system scan *)

NameFire == <<"f", "i", "r", "e">>
NameAfire == <<"a", "f", "i", "r", "e">>
NameFir == <<"f", "i", "r">>
NameLs == <<"l", "s">>
NameFirefox == <<"F", "i", "r", "e", "f", "o", "x">>
NameAFire == <<"a", " ", "f", "i", "r", "e">>

Executable(name, path) == [name |-> name, path |-> path]
Application(name, exec) == [name |-> name, exec |-> exec]

\* Nothing to discover: no executable on PATH or in the user directories, no desktop entry.
EnvNone == [executables |-> <<>>, applications |-> <<>>]

\* /bin/fire and /usr/bin/fire are two files of one name; /usr/bin/ls is listed by
\* two directory entries (scan_directory deduplicates by entry path, not by target).
EnvSmall ==
    [executables |-> << Executable(NameFire, "/usr/bin/fire"),
                        Executable(NameLs, "/usr/bin/ls"),
                        Executable(NameFire, "/bin/fire"),
                        Executable(NameLs, "/usr/bin/ls") >>,
     applications |-> << Application(NameFirefox, "firefox") >>]

EnvLarge ==
    [executables |-> << Executable(NameFire, "/usr/bin/fire"),
                        Executable(NameAfire, "/usr/bin/afire"),
                        Executable(NameFir, "/usr/bin/fir"),
                        Executable(NameLs, "/usr/bin/ls"),
                        Executable(<<"c", "a", "t">>, "/usr/bin/cat"),
                        Executable(<<"t", "o", "p">>, "/usr/bin/top"),
                        Executable(<<"g", "i", "t">>, "/usr/bin/git"),
                        Executable(<<"t", "a", "r">>, "/usr/bin/tar"),
                        Executable(<<"z", "i", "p">>, "/usr/bin/zip"),
                        Executable(<<"v", "i">>, "/usr/bin/vi") >>,
     applications |-> << Application(NameFirefox, "firefox"),
                         Application(NameAFire, "afire --gui") >>]

\* A faulty variant of NeedsScan: only the program rows are counted.
NeedsScanProgramsOnly(tbl) ==
    Cardinality({i \in DOMAIN tbl : tbl[i].action_type = "program"}) = 0

\* ActionScanner::needs_scan: COUNT(*) of the program and desktop rows is 0
NeedsScan(tbl) ==
    Cardinality({i \in DOMAIN tbl : tbl[i].action_type \in {"program", "desktop"}}) = 0

RECURSIVE InsertBinaries(_, _, _)
InsertBinaries(st, executables, i) ==
    IF i > Len(executables) THEN st
    ELSE InsertBinaries(InsertBinary(st, executables[i].name, executables[i].path).store,
                        executables, i + 1)

RECURSIVE InsertApplications(_, _, _)
InsertApplications(st, applications, i) ==
    IF i > Len(applications) THEN st
    ELSE InsertApplications(
             InsertApplication(st, applications[i].name, applications[i].exec).store,
             applications, i + 1)

\* ActionScanner::scan_system on one connection, nothing else running in between
ScanSystem(st, disc) ==
    InsertApplications(InsertBinaries(st, disc.executables, 1), disc.applications, 1)

---------------------------------------------------------------------------
(* Browser history: what the browsers' databases hold, and the items made of it *)

HistoryEntry(title, url, visit_count, last_visit) ==
    [title |-> title, url |-> url, visit_count |-> visit_count, last_visit |-> last_visit]

UrlFire == <<"a", ":", "f", "i", "r", "e">>
UrlLs == <<"a", ":", "l", "s">>

\* The rows of two browsers' history databases that pass the queries' fixed
\* exclusions (a title, a web scheme), one list per database, one row per url.
BrowserDatabases ==
    << << HistoryEntry(NameFire, UrlFire, 120, 1) >>,
       << HistoryEntry(NameFirefox, UrlFire, 3, 2), HistoryEntry(NameLs, UrlLs, 1, 3) >> >>

HistoryRowLimit == 5
VisitBase == 50
VisitCap == 100
HistoryBoost == 10

\* firefox_history_query / chromium_history_query on one database:
\* title LIKE %term% OR url LIKE %term%, ORDER BY last_visit DESC LIMIT 5
ReadHistoryDb(rows, term) ==
    Truncate(StableSort(SelectSeq(rows, LAMBDA e :
                            term = <<>> \/ LikeContains(e.title, term)
                                        \/ LikeContains(e.url, term)),
                        LAMBDA x, y : x.last_visit > y.last_visit),
             HistoryRowLimit)

RECURSIVE CollectFrom(_, _, _)
CollectFrom(dbs, term, i) ==
    IF i > Len(dbs) THEN <<>>
    ELSE ReadHistoryDb(dbs[i], term) \o CollectFrom(dbs, term, i + 1)

\* HistoryCollector::collect_all_browser_histories
CollectAllBrowserHistories(dbs, term) == CollectFrom(dbs, term, 1)

\* A faulty variant of DeduplicateEntries: the entries are not sorted first.
DeduplicateUnsorted(entries) ==
    LET kept == {i \in DOMAIN entries :
                    \A j \in 1..(i - 1) : entries[j].url # entries[i].url}
    IN  SelectSeq([i \in DOMAIN entries |-> [e |-> entries[i], keep |-> i \in kept]],
                  LAMBDA r : r.keep)

\* BrowserHistoryHandler::deduplicate_entries: by last visit, newest first, the first
\* entry of each url kept
DeduplicateEntries(entries) ==
    LET all_entries == StableSort(entries, LAMBDA x, y : x.last_visit > y.last_visit)
        kept == {i \in DOMAIN all_entries :
                    \A j \in 1..(i - 1) : all_entries[j].url # all_entries[i].url}
    IN  SelectSeq([i \in DOMAIN all_entries |-> [e |-> all_entries[i], keep |-> i \in kept]],
                  LAMBDA r : r.keep)

ID_URL_CHARS == 20

\* The characters of a text collected into a String
RECURSIVE JoinChars(_)
JoinChars(text) == IF text = <<>> THEN "" ELSE Head(text) \o JoinChars(Tail(text))

\* format!("browser-history-{}", entry.url.chars().take(20).collect::<String>())
HistoryIdText(url) ==
    "browser-history-" \o JoinChars(SubSeq(url, 1, Min(Len(url), ID_URL_CHARS)))

\* An ActionItem as far as ordering and execution go
Item(id, relevance, relevance_boost) ==
    [id |-> id, relevance |-> relevance, relevance_boost |-> relevance_boost]

\* ActionItem::relevance
ItemRelevance(item) == item.relevance * item.relevance_boost

\* BrowserHistoryFactory::create_action_from_entry
CreateActionFromEntry(entry) ==
    Item(Builtin(HistoryIdText(entry.url)),
         VisitBase + (IF entry.visit_count < VisitCap THEN entry.visit_count ELSE VisitCap),
         HistoryBoost)

\* BrowserHistoryFactory::create_actions_for_query on the databases as the view's
\* specifications keep them (a non-empty query is never cached)
CreateActionsForQuery(query) ==
    IF IsBlank(query) THEN <<>>
    ELSE Map(DeduplicateEntries(CollectAllBrowserHistories(BrowserDatabases, query)),
             LAMBDA r : CreateActionFromEntry(r.e))

---------------------------------------------------------------------------
(* The registry: built-in handlers and the merged, ordered list *)

GOOGLE_SEARCH == "google_search"
DUCKDUCKGO_SEARCH == "duckduckgo_search"
YANDEX_SEARCH == "yandex_search"
PERPLEXITY_SEARCH == "perplexity_search"
URL_OPEN == "url_open"
BROWSER_HISTORY == "browser-history"

\* ActionRegistry::new: the built-in actions in the order of registration
BuiltinActions ==
    <<GOOGLE_SEARCH, DUCKDUCKGO_SEARCH, YANDEX_SEARCH, PERPLEXITY_SEARCH, URL_OPEN,
      BROWSER_HISTORY>>

DynamicBoost == 2
SearchBoost == 1
UrlRelevance == 1
UrlBoost == 10

\* create_action of the handlers BinHandler and AppHandler build from a definition
CreateDynamicAction(def) == Item(Dynamic(def.id), def.relevance, DynamicBoost)

\* create_action of each built-in handler
CreateBuiltinAction(handler, ex, t) ==
    IF handler \in {GOOGLE_SEARCH, YANDEX_SEARCH, PERPLEXITY_SEARCH}
    THEN Item(Builtin(handler), GetActionRelevance(ex, handler, t).relevance, SearchBoost)
    ELSE IF handler = DUCKDUCKGO_SEARCH THEN Item(Builtin(handler), 1, SearchBoost)
    ELSE IF handler = URL_OPEN THEN Item(Builtin(handler), UrlRelevance, UrlBoost)
    ELSE Item(Builtin(handler), 0, 0)

\* Url::parse(query).is_ok(): a scheme that starts with a letter, then a colon
ParsesAsUrl(query) ==
    \E i \in 2..Len(query) :
        /\ query[i] = ":"
        /\ IsAlphanumeric(query[1])
        /\ \A j \in 2..(i - 1) : query[j] \notin {" ", ":"}

\* ActionDefinition::is_fallback: the generic web-search engines
IsFallback(handler) ==
    handler \in {GOOGLE_SEARCH, DUCKDUCKGO_SEARCH, YANDEX_SEARCH, PERPLEXITY_SEARCH}

\* ActionItem::should_display: the handler's query-acceptance predicate.  The search
\* engines and the history facade take any non-empty input, the URL opener an input
\* that parses as a URL.
ShouldDisplay(handler, flt) ==
    IF handler = URL_OPEN THEN flt # <<>> /\ ParsesAsUrl(flt)
    ELSE flt # <<>>

\* The discovered actions of ActionRegistry::set_filter: a failed query gives none
DynamicItems(dynamic_actions) ==
    IF dynamic_actions.ok THEN Map(dynamic_actions.list, CreateDynamicAction) ELSE <<>>

\* The items of ActionRegistry::set_filter before they are ordered: the normal ones
\* (discovered actions, history matches, accepted built-ins) and the fallback ones
FilterGroups(st, ex, flt, t) ==
    LET history == IF flt # <<>> THEN CreateActionsForQuery(flt) ELSE <<>>
        shown == SelectSeq(BuiltinActions, LAMBDA h : ShouldDisplay(h, flt))
        items(hs) == Map(hs, LAMBDA h : CreateBuiltinAction(h, ex, t))
    IN  [normal |-> DynamicItems(GetActionsFiltered(st, ex, flt, t)) \o history
                        \o items(SelectSeq(shown, LAMBDA h : ~IsFallback(h))),
         fallback |-> items(SelectSeq(shown, LAMBDA h : IsFallback(h)))]

\* Ord for ActionItem: the higher relevance() first
ItemBefore(x, y) == ItemRelevance(x) > ItemRelevance(y)

\* The end of ActionRegistry::set_filter: each group sorted, the fallback group appended
SortGroups(g) == StableSort(g.normal, ItemBefore) \o StableSort(g.fallback, ItemBefore)

\* A faulty variant of RegistrySetFilter: one sort over all the items.
RegistrySetFilterOneSort(st, ex, flt, t) ==
    LET g == FilterGroups(st, ex, flt, t)
    IN  StableSort(g.normal \o g.fallback, ItemBefore)

\* ActionRegistry::set_filter
RegistrySetFilter(st, ex, flt, t) == SortGroups(FilterGroups(st, ex, flt, t))

---------------------------------------------------------------------------
(* The store's interface, called directly *)

Ret(op, arg, result) == [op |-> op, arg |-> arg, result |-> result]
Idle == Ret("idle", <<>>, 0)

Call(kind, name, target, accepts_args, id) ==
    [kind |-> kind, name |-> name, target |-> target, accepts_args |-> accepts_args,
     id |-> id]

InsertNames == {NameFire, NameLs}
InsertPaths == {"/usr/bin/fire", "/bin/fire"}
InsertExecs == {"firefox", "fire --gui"}

\* No desktop file in the application directories, no directory on PATH
NoFiles == [desktop |-> <<>>, path |-> <<>>]
\* Mutex<..>: 0 when free, else the caller holding it
NoLocks == [cache |-> 0, last_update |-> 0]

\* Database::new on a fresh file: Schema::initialize creates the four tables, empty.
DatabaseInit ==
    /\ actions = <<>>
    /\ program_items = <<>>
    /\ desktop_items = <<>>
    /\ action_executions = <<>>
    /\ now = 0
    /\ ret = Idle
    /\ calls = <<>>
    /\ filter = <<>>
    /\ selected_index = 0
    /\ filtered_actions = <<>>
    /\ scans = <<>>
    /\ handler_rows = <<>>
    /\ history_cache = [some |-> FALSE, entries |-> <<>>]
    /\ last_cache_update = UNIX_EPOCH
    /\ seconds = 0
    /\ history_dbs = BrowserDatabases
    /\ files = NoFiles
    /\ readers = <<>>
    /\ locks = NoLocks

\* ProgramItem::insert(conn, name, path)
CallProgramItemInsert(name, path) ==
    LET r == ProgramItemInsert(CurrentStore, name, path)
    IN  /\ Len(calls) < MaxInserts
        /\ actions' = r.store.actions
        /\ program_items' = r.store.program_items
        /\ desktop_items' = r.store.desktop_items
        /\ ret' = Ret("insert", name, r.id)
        /\ calls' = Append(calls, Call("program", name, path, FALSE, r.id))
        /\ UNCHANGED <<handler_rows, action_executions, now, background, view, scans>>

\* DesktopItem::insert(conn, name, exec, accepts_args)
CallDesktopItemInsert(name, exec, accepts_args) ==
    LET r == DesktopItemInsert(CurrentStore, name, exec, accepts_args)
    IN  /\ Len(calls) < MaxInserts
        /\ actions' = r.store.actions
        /\ program_items' = r.store.program_items
        /\ desktop_items' = r.store.desktop_items
        /\ ret' = Ret("insert", name, r.id)
        /\ calls' = Append(calls, Call("desktop", name, exec, accepts_args, r.id))
        /\ UNCHANGED <<handler_rows, action_executions, now, background, view, scans>>

StoreInit == DatabaseInit /\ discovered = EnvNone

StoreNext ==
    \/ \E name \in InsertNames, path \in InsertPaths : CallProgramItemInsert(name, path)
    \/ \E name \in InsertNames, exec \in InsertExecs, accepts_args \in BOOLEAN :
           CallDesktopItemInsert(name, exec, accepts_args)

StoreSpec == StoreInit /\ [][StoreNext]_vars

\* ActionScanner::scan_system(db)
CallScanSystem ==
    LET st == ScanSystem(CurrentStore, discovered)
    IN  /\ actions' = st.actions
        /\ program_items' = st.program_items
        /\ desktop_items' = st.desktop_items
        /\ ret' = Ret("scan_system", <<>>, 0)
        /\ UNCHANGED <<handler_rows, action_executions, now, background, calls, view, scans>>

\* Database::log_execution(action_id)
CallLogExecution(action_id) ==
    /\ Len(action_executions) < MaxExec
    /\ action_executions' = InsertExecution(action_executions, action_id, now)
    /\ ret' = Ret("log_execution", <<>>, action_id)
    /\ calls' = Append(calls, Call("log_execution", <<>>, action_id, FALSE, 0))
    /\ UNCHANGED <<handler_rows, actions, program_items, desktop_items, now, background, view, scans>>

\* Database::get_actions_filtered(filter)
CallGetActionsFiltered(flt) ==
    /\ ret' = Ret("get_actions_filtered", flt,
                  GetActionsFiltered(CurrentStore, action_executions, flt, now))
    /\ UNCHANGED <<tables, now, background, calls, view, scans>>

\* Twelve hours pass.  What the last call returned is no longer current.
Tick ==
    /\ now < MaxTime
    /\ now' = now + 1
    /\ ret' = Idle
    /\ UNCHANGED <<tables, background, calls, view, scans>>

\* The ids of fire, Firefox and "a fire" after a scan of EnvLarge
QueryLogIds == {"1", "11", "12"}
QueryFilters == {<<>>, <<" ">>, NameFire, NameFir}

QueryInit == DatabaseInit /\ discovered = EnvLarge

QueryNext ==
    \/ CallScanSystem
    \/ \E action_id \in QueryLogIds : CallLogExecution(action_id)
    \/ \E flt \in QueryFilters : CallGetActionsFiltered(flt)
    \/ Tick

QuerySpec == QueryInit /\ [][QueryNext]_vars

---------------------------------------------------------------------------
(* The list view: filter, selection, rendering, the background scan, execution *)

ITEMS_TO_SHOW == 30

NameDisable == <<"d", "i", "s", "a", "b", "l", "e">>
NameEnable == <<"e", "n", "a", "b", "l", "e">>
\* CommandRegistry::register_default_commands
CommandNames == {NameDisable, NameEnable}

\* ItemMode::Command, set by ActionListView::set_filter from the filter's first character
CommandMode == StartsWith(filter, <<":">>)

\* A scan task: spawned, then done; stored counts the discovered actions in the
\* store when the task finished
Task(state, stored) == [state |-> state, stored |-> stored]
Outstanding == {i \in DOMAIN scans : scans[i].state = "spawned"}

\* Only Firefox's desktop entry, and no executable
EnvApps == [executables |-> <<>>, applications |-> << Application(NameFirefox, "firefox") >>]

AppEnvironments == {EnvNone, EnvApps}
UrlFilter == UrlFire
\* The id of the Google handler as the user types it
GoogleSearchText == <<"g", "o", "o", "g", "l", "e", "_", "s", "e", "a", "r", "c", "h">>
CmdDisable == <<":">> \o NameDisable \o <<" ">> \o GoogleSearchText
AppFilters == {<<>>, NameFire, UrlFilter, CmdDisable}

\* ActionListView::new on a first start: ActionRegistry::new calls set_filter("")
Init ==
    /\ actions = <<>>
    /\ program_items = <<>>
    /\ desktop_items = <<>>
    /\ action_executions = <<>>
    /\ now = 0
    /\ discovered \in AppEnvironments
    /\ ret = Idle
    /\ calls = <<>>
    /\ filter = <<>>
    /\ selected_index = 0
    /\ filtered_actions = RegistrySetFilter(EmptyStore, <<>>, <<>>, 0)
    /\ scans = <<>>
    /\ handler_rows = <<>>
    /\ history_cache = [some |-> FALSE, entries |-> <<>>]
    /\ last_cache_update = UNIX_EPOCH
    /\ seconds = 0
    /\ history_dbs = BrowserDatabases
    /\ files = NoFiles
    /\ readers = <<>>
    /\ locks = NoLocks

\* A faulty variant of SetFilter: the query is written to the execution log.
SetFilterLogging(new_filter) ==
    /\ filtered_actions' =
           IF StartsWith(new_filter, <<":">>) THEN filtered_actions
           ELSE RegistrySetFilter(CurrentStore, action_executions, new_filter, now)
    /\ filter' = new_filter
    /\ selected_index' = 0
    /\ ret' = Idle
    /\ action_executions' = InsertExecution(action_executions, "query", now)
    /\ UNCHANGED <<actions, program_items, desktop_items, handler_rows, now, background,
                   calls, scans>>

\* ActionListView::set_filter
SetFilter(new_filter) ==
    /\ filtered_actions' =
           IF StartsWith(new_filter, <<":">>) THEN filtered_actions
           ELSE RegistrySetFilter(CurrentStore, action_executions, new_filter, now)
    /\ filter' = new_filter
    /\ selected_index' = 0
    /\ ret' = Idle
    /\ UNCHANGED <<tables, now, background, calls, scans>>

\* ActionListView::items_len
ItemsLen == IF CommandMode THEN Cardinality(CommandNames) ELSE Len(filtered_actions)

\* ActionListView::navigate_up
NavigateUp ==
    /\ selected_index' =
           IF ItemsLen = 0 THEN selected_index
           ELSE IF selected_index >= 1 THEN selected_index - 1
           ELSE Min(ItemsLen, ITEMS_TO_SHOW) - 1
    /\ ret' = Idle
    /\ UNCHANGED <<tables, now, background, calls, filter, filtered_actions, scans>>

\* A faulty variant of NavigateDown: the index wraps at the length of the list.
NavigateDownNoCap ==
    /\ selected_index' =
           IF ItemsLen = 0 THEN selected_index
           ELSE (selected_index + 1) % ItemsLen
    /\ ret' = Idle
    /\ UNCHANGED <<tables, now, background, calls, filter, filtered_actions, scans>>

\* ActionListView::navigate_down
NavigateDown ==
    /\ selected_index' =
           IF ItemsLen = 0 THEN selected_index
           ELSE (selected_index + 1) % Min(ItemsLen, ITEMS_TO_SHOW)
    /\ ret' = Idle
    /\ UNCHANGED <<tables, now, background, calls, filter, filtered_actions, scans>>

\* Render for ActionListView, when it does more than draw: render_action_list with an
\* empty filter on a store that needs a scan calls ActionRegistry::scan, which checks
\* needs_scan again and spawns the scan task.
Render ==
    /\ ~CommandMode
    /\ filter = <<>>
    /\ NeedsScan(actions)
    /\ Len(scans) < MaxTasks
    /\ scans' = Append(scans, Task("spawned", 0))
    /\ ret' = Idle
    /\ UNCHANGED <<tables, now, background, calls, view>>

\* The task spawned by ActionRegistry::scan, run by the foreground executor: a new
\* connection (Schema::initialize finds the tables and the version, and changes no
\* row), scan_system, then cx.notify().  The tasks run in the order they were spawned.
RunScanTask ==
    /\ Outstanding # {}
    /\ LET i == CHOOSE i \in Outstanding : \A j \in Outstanding : i <= j
           st == ScanSystem(CurrentStore, discovered)
       IN  /\ actions' = st.actions
           /\ program_items' = st.program_items
           /\ desktop_items' = st.desktop_items
           /\ scans' = [scans EXCEPT ![i] = Task("done", Len(st.actions))]
    /\ ret' = Idle
    /\ UNCHANGED <<handler_rows, action_executions, now, background, calls, view>>

\* CommandRegistry::execute_command, the command line as a list of words: the colon
\* stripped, trimmed, split at whitespace
CommandArgs(command_line) ==
    SplitWhitespace(IF StartsWith(command_line, <<":">>)
                    THEN SubSeq(command_line, 2, Len(command_line))
                    ELSE command_line)

\* CommandRegistry::execute_command: "panic" where the code indexes args[0] of an
\* empty list or unwraps the lookup of an unknown command, else success.
ExecuteCommand(command_line) ==
    LET args == CommandArgs(command_line)
    IN  IF args = <<>> THEN "panic"
        ELSE IF args[1] \notin CommandNames THEN "panic"
        ELSE IF Len(args) < 2 THEN "panic"
        ELSE "success"

\* The handler id a word of the command line names
HandlerIdOfText(text) == IF text = GoogleSearchText THEN GOOGLE_SEARCH ELSE "unregistered"

\* Database::set_handler_enabled(handler_id, enabled): the flag of the handler is
\* stored, in a new row when the handler has none
SetHandlerEnabled(rows, handler_id, enabled) ==
    IF \E i \in DOMAIN rows : rows[i].id = handler_id
    THEN [i \in DOMAIN rows |->
             IF rows[i].id = handler_id THEN [rows[i] EXCEPT !.enabled = enabled]
             ELSE rows[i]]
    ELSE Append(rows, [id |-> handler_id, enabled |-> enabled])

\* The handlers "disable" and "enable" of register_default_commands
CommandEffect(rows, command_line) ==
    LET args == CommandArgs(command_line)
    IN  IF ExecuteCommand(command_line) # "success" THEN rows
        ELSE SetHandlerEnabled(rows, HandlerIdOfText(args[2]), args[1] = NameEnable)

\* ActionListView::run_selected_action in command mode
RunCommand ==
    /\ CommandMode
    /\ ret' = Ret("command", filter, ExecuteCommand(filter))
    /\ handler_rows' = CommandEffect(handler_rows, filter)
    /\ UNCHANGED <<actions, program_items, desktop_items, action_executions, now,
                   background, calls, view, scans>>

\* What ActionHandler::execute can return for an item: opening a URL or spawning a
\* process succeeds or fails with the system; the history facade has no entry to open.
HandlerOutcomes(item) ==
    IF item.id = Builtin(BROWSER_HISTORY) THEN {"err"} ELSE {"ok", "err"}

\* ActionItem::execute, its effect on action_executions:
\* self.db.log_execution(self.id.as_str())?; self.handler.execute(input)
ExecuteItem(ex, item, outcome, t) == InsertExecution(ex, AsStr(item.id), t)

\* ActionListView::run_selected_action in action mode: get(selected_index).unwrap()
\* panics when the list has no such item; the result of execute is dropped
\* (let _ = action.execute(filter)) and true returned.
RunSelectedAction ==
    /\ ~CommandMode
    /\ IF selected_index >= Len(filtered_actions)
       THEN /\ ret' = Ret("execute", <<>>, [dispatch |-> "none", returned |-> "panic"])
            /\ UNCHANGED <<action_executions, calls>>
       ELSE LET item == filtered_actions[selected_index + 1]
            IN  /\ Len(action_executions) < MaxRuns
                /\ \E outcome \in HandlerOutcomes(item) :
                       /\ action_executions' =
                              ExecuteItem(action_executions, item, outcome, now)
                       /\ ret' = Ret("execute", AsStr(item.id),
                                      [dispatch |-> outcome, returned |-> "true"])
                /\ calls' = Append(calls, Call("log_execution", <<>>, AsStr(item.id),
                                               FALSE, 0))
    /\ UNCHANGED <<handler_rows, actions, program_items, desktop_items, now, background, view, scans>>

Next ==
    \/ \E new_filter \in AppFilters : SetFilter(new_filter)
    \/ NavigateUp
    \/ NavigateDown
    \/ Render
    \/ RunScanTask
    \/ RunCommand
    \/ RunSelectedAction

Spec == Init /\ [][Next]_vars

---------------------------------------------------------------------------
(* Two scan_system invocations on two connections, one SQL statement at a time *)

\* What one invocation discovers, in the order scan_system inserts it
ScanItems(disc) ==
    [i \in DOMAIN disc.executables |->
        [kind |-> "program", name |-> disc.executables[i].name,
         target |-> disc.executables[i].path]]
    \o [i \in DOMAIN disc.applications |->
        [kind |-> "desktop", name |-> disc.applications[i].name,
         target |-> disc.applications[i].exec]]

\* An invocation: the item it is at, the statement of that item's insert it runs next
\* (1 INSERT OR IGNORE INTO actions, 2 SELECT id, 3 INSERT OR IGNORE of the item row),
\* the id its SELECT returned, the inserts that returned an error, and the actions
\* rows it has added.
Scanner(item, stmt, id, failures, inserted) ==
    [item |-> item, stmt |-> stmt, id |-> id, failures |-> failures,
     inserted |-> inserted]

ScannerIds == {1, 2}
ScannerDone(w) == scans[w].item > Len(ScanItems(discovered))
RaceLogIds == {"1", GOOGLE_SEARCH}

RaceInit ==
    /\ actions = <<>>
    /\ program_items = <<>>
    /\ desktop_items = <<>>
    /\ action_executions = <<>>
    /\ now = 0
    /\ discovered = EnvSmall
    /\ ret = Idle
    /\ calls = <<>>
    /\ filter = <<>>
    /\ selected_index = 0
    /\ filtered_actions = <<>>
    /\ scans = [w \in ScannerIds |-> Scanner(1, 1, 0, 0, 0)]
    /\ handler_rows = <<>>
    /\ history_cache = [some |-> FALSE, entries |-> <<>>]
    /\ last_cache_update = UNIX_EPOCH
    /\ seconds = 0
    /\ history_dbs = BrowserDatabases
    /\ files = NoFiles
    /\ readers = <<>>
    /\ locks = NoLocks

\* Action::insert, first statement
InsertActionStep(w) ==
    /\ ~ScannerDone(w)
    /\ scans[w].stmt = 1
    /\ LET it == ScanItems(discovered)[scans[w].item]
       IN  /\ actions' = InsertOrIgnoreAction(actions, it.name, it.kind)
           /\ scans' = [scans EXCEPT ![w].stmt = 2,
                                     ![w].inserted = IF actions' # actions THEN @ + 1 ELSE @]
    /\ ret' = Idle
    /\ UNCHANGED <<handler_rows, program_items, desktop_items, action_executions, now, background,
                   calls, view>>

\* Action::insert, second statement: query_row fails when no row is found, the insert
\* method returns the error and scan_system goes on to the next item
SelectIdStep(w) ==
    /\ ~ScannerDone(w)
    /\ scans[w].stmt = 2
    /\ LET it == ScanItems(discovered)[scans[w].item]
           id == SelectActionId(actions, it.name, it.kind)
       IN  scans' = IF id = 0
                    THEN [scans EXCEPT ![w].item = @ + 1, ![w].stmt = 1,
                                       ![w].failures = @ + 1]
                    ELSE [scans EXCEPT ![w].stmt = 3, ![w].id = id]
    /\ ret' = Idle
    /\ UNCHANGED <<tables, now, background, calls, view>>

\* ProgramItem::insert / DesktopItem::insert, the statement after Action::insert
InsertItemStep(w) ==
    /\ ~ScannerDone(w)
    /\ scans[w].stmt = 3
    /\ LET it == ScanItems(discovered)[scans[w].item]
       IN  IF it.kind = "program"
           THEN /\ program_items' = InsertOrIgnoreProgramItem(program_items, scans[w].id,
                                                              it.name, it.target)
                /\ UNCHANGED desktop_items
           ELSE /\ desktop_items' = InsertOrIgnoreDesktopItem(desktop_items, scans[w].id,
                                                              it.name, it.target, TRUE)
                /\ UNCHANGED program_items
    /\ scans' = [scans EXCEPT ![w].item = @ + 1, ![w].stmt = 1, ![w].id = 0]
    /\ ret' = Idle
    /\ UNCHANGED <<handler_rows, actions, action_executions, now, background, calls, view>>

ScanRaceNext ==
    \/ \E w \in ScannerIds : InsertActionStep(w)
    \/ \E w \in ScannerIds : SelectIdStep(w)
    \/ \E w \in ScannerIds : InsertItemStep(w)
    \/ \E action_id \in RaceLogIds : CallLogExecution(action_id)

ScanRaceSpec == RaceInit /\ [][ScanRaceNext]_vars

---------------------------------------------------------------------------
(* Properties of the insert methods *)

SameArgs(c, d) ==
    /\ c.kind = d.kind
    /\ c.name = d.name
    /\ c.target = d.target
    /\ c.accepts_args = d.accepts_args

ActionRows(tbl, name, action_type) ==
    {i \in DOMAIN tbl : tbl[i].name = name /\ tbl[i].action_type = action_type}

ItemRows(st, kind, id) ==
    IF kind = "program"
    THEN {i \in DOMAIN st.program_items : st.program_items[i].id = id}
    ELSE {i \in DOMAIN st.desktop_items : st.desktop_items[i].id = id}

\* C1: an insert call leaves exactly one actions row for its (name, kind) and exactly
\* one item row for that action; a call that repeats the arguments of an earlier call
\* returns the id the earlier call returned and changes no table.
C1_InsertIdempotent ==
    [][Len(calls') = Len(calls) + 1 =>
         LET c == calls'[Len(calls')]
         IN  /\ c.id > 0
             /\ Cardinality(ActionRows(actions', c.name, c.kind)) = 1
             /\ Cardinality(ItemRows(Store(actions', program_items', desktop_items'),
                                     c.kind, c.id)) = 1
             /\ \A i \in DOMAIN calls :
                    SameArgs(calls[i], c) => (c.id = calls[i].id /\ UNCHANGED tables)]_vars

\* A desktop insert has been repeated with the same arguments: it returned the id of
\* the first call and the store holds one actions row and one desktop_items row.
C1_Witness ==
    /\ \E i, j \in DOMAIN calls :
          i < j /\ calls[i].kind = "desktop" /\ SameArgs(calls[i], calls[j])
              /\ ret.op = "insert" /\ ret.result = calls[j].id /\ j = Len(calls)
    /\ Len(actions) = 1
    /\ Len(desktop_items) = 1

---------------------------------------------------------------------------
(* Properties of the ranking *)

IsQuery == ret.op = "get_actions_filtered"
ResultList == ret.result.list

\* The actions row of a returned definition
RowOf(def) == actions[CHOOSE i \in DOMAIN actions : actions[i].id = def.id]

\* How an action matches the lowercased filter f: 4 exact, 3 prefix, 2 substring of
\* the searchname; 1 when only the fuzzy tier returns it; 0 when only the name matches.
Tier(a, f) ==
    IF a.searchname = f THEN 4
    ELSE IF LikePrefix(a.searchname, f) THEN 3
    ELSE IF LikeContains(a.searchname, f) THEN 2
    ELSE IF ~DirectMatch(a, f) THEN 1
    ELSE 0

SameBaseScore(a, b) ==
    /\ BaseScoreNum(action_executions, a.id, now) = BaseScoreNum(action_executions, b.id, now)
    /\ RankScoreNum(action_executions, a.id, now) = RankScoreNum(action_executions, b.id, now)

\* C3: in the result of a query with a non-blank filter, of two actions with the same
\* base score the one that matches in the higher tier (exact, prefix, substring,
\* fuzzy only) comes first.
C3_TierOrder ==
    (IsQuery /\ ~IsBlank(ret.arg) /\ ret.result.ok) =>
        \A i, j \in DOMAIN ResultList :
            LET a == RowOf(ResultList[i])
                b == RowOf(ResultList[j])
                f == ToLowercase(ret.arg)
            IN  (Tier(a, f) > Tier(b, f) /\ Tier(b, f) >= 1 /\ SameBaseScore(a, b)) => i < j

\* C4: in the result of a query with a non-blank filter, of two directly matching
\* actions with the same match quality the one with the higher base score comes first.
C4_BaseScoreOrder ==
    (IsQuery /\ ~IsBlank(ret.arg) /\ ret.result.ok) =>
        \A i, j \in DOMAIN ResultList :
            LET a == RowOf(ResultList[i])
                b == RowOf(ResultList[j])
                f == ToLowercase(ret.arg)
            IN  (/\ DirectMatch(a, f) /\ DirectMatch(b, f)
                 /\ MatchQuality(a.searchname, f) = MatchQuality(b.searchname, f)
                 /\ BaseScoreNum(action_executions, a.id, now)
                        > BaseScoreNum(action_executions, b.id, now)) => i < j

---------------------------------------------------------------------------
(* Properties of the merged list, the scan and the execution log *)

IsFallbackItem(item) == item.id.tag = "Builtin" /\ IsFallback(item.id.s)

\* C2: in the list set_filter produces no fallback item comes before a non-fallback
\* item, whatever their relevances.
C2_FallbackLast ==
    \A i, j \in DOMAIN filtered_actions :
        (IsFallbackItem(filtered_actions[i]) /\ ~IsFallbackItem(filtered_actions[j])) => j < i

\* A list with a discovered action, a history match and the URL opener, all of them
\* before a search engine whose relevance is higher than that of each of them.
C2_Witness ==
    \E g \in DOMAIN filtered_actions :
        /\ IsFallbackItem(filtered_actions[g])
        /\ \E d, h, u \in 1..(g - 1) :
              /\ filtered_actions[d].id.tag = "Dynamic"
              /\ filtered_actions[h].id = Builtin(HistoryIdText(UrlFire))
              /\ filtered_actions[u].id = Builtin(URL_OPEN)
              /\ \A k \in {d, h, u} :
                     ItemRelevance(filtered_actions[k]) < ItemRelevance(filtered_actions[g])

\* C6, as stated: needs_scan is true on a store without discovered actions and false
\* once a scan_system run has completed.
C6_FalseAfterScan ==
    /\ (actions = <<>> => NeedsScan(actions))
    /\ (\E i \in DOMAIN scans : scans[i].state = "done") => ~NeedsScan(actions)

\* C6, amended: needs_scan is true on a store without discovered actions and false
\* once a scan_system run that left at least one discovered action in the store has
\* completed.
C6_FalseAfterStoringScan ==
    /\ (actions = <<>> => NeedsScan(actions))
    /\ (\E i \in DOMAIN scans : scans[i].state = "done" /\ scans[i].stored > 0)
           => ~NeedsScan(actions)

\* A scan that stored a desktop entry has completed, and an item was executed after it.
C6_Witness ==
    /\ \E i \in DOMAIN scans : scans[i].state = "done" /\ scans[i].stored > 0
    /\ ~NeedsScan(actions)
    /\ action_executions # <<>>

\* C7: at most one scan task is outstanding at any time.
C7_SingleFlight == Cardinality(Outstanding) <= 1

\* C9: when the handler of the executed item returns an error, the execution log is
\* left as it was.
C9_LoggedOnlyOnSuccess ==
    [][(ret'.op = "execute" /\ ret'.result.dispatch = "err") =>
           action_executions' = action_executions]_vars

LogCalls(c, action_id) ==
    Cardinality({i \in DOMAIN c : c[i].kind = "log_execution" /\ c[i].target = action_id})

\* C10: a step either leaves the execution log as it is or appends one record; a
\* log_execution(id) call appends exactly one record, for id, with the current time;
\* the count of an id never decreases and is the number of log_execution calls for it.
C10_AppendOnly ==
    [][/\ \/ action_executions' = action_executions
          \/ /\ Len(calls') = Len(calls) + 1
             /\ action_executions' =
                    Append(action_executions,
                           [action_id |-> calls'[Len(calls')].target,
                            execution_timestamp |-> now])
       /\ Len(calls') = Len(calls) + 1 => Len(action_executions') = Len(action_executions) + 1
       /\ \A action_id \in QueryLogIds :
              /\ GetExecutionCount(action_executions', action_id)
                     >= GetExecutionCount(action_executions, action_id)
              /\ GetExecutionCount(action_executions', action_id)
                     = LogCalls(calls', action_id)]_vars

\* The same action was logged twice, at different times, on a scanned store, and a
\* query followed.
C10_Witness ==
    /\ Len(action_executions) = 2
    /\ action_executions[1].action_id = action_executions[2].action_id
    /\ action_executions[1].execution_timestamp < action_executions[2].execution_timestamp
    /\ GetExecutionCount(action_executions, action_executions[1].action_id) = 2
    /\ actions # <<>>
    /\ IsQuery

\* C8: however the statements of the two scans and the log_execution calls interleave,
\* no (name, kind) is stored twice, no insert returns an error, and when both scans
\* are done the three tables hold what a single scan_system run stores.
C8_InterleavedScans ==
    /\ \A i, j \in DOMAIN actions :
           (actions[i].name = actions[j].name
                /\ actions[i].action_type = actions[j].action_type) => i = j
    /\ \A w \in ScannerIds : scans[w].failures = 0
    /\ (\A w \in ScannerIds : ScannerDone(w)) =>
           CurrentStore = ScanSystem(EmptyStore, discovered)

\* Both scans are done, each of them has added an actions row the other found in
\* place, and an execution was logged meanwhile.
C8_Witness ==
    /\ \A w \in ScannerIds : ScannerDone(w) /\ scans[w].inserted > 0
    /\ action_executions # <<>>
    /\ Len(actions) = 3

---------------------------------------------------------------------------
(* Properties of the execution records' ids *)

\* The handlers ActionRegistry::new registers
RegisteredHandlers == {BuiltinActions[i] : i \in DOMAIN BuiltinActions}

IdentifiesAction(text) ==
    \/ \E k \in DOMAIN actions : TextEqualsInteger(text, actions[k].id)
    \/ text \in RegisteredHandlers

\* C11: the action_id of every execution record is the id of a row of actions or of a
\* registered built-in handler.
C11_RecordsIdentifyActions ==
    \A i \in DOMAIN action_executions : IdentifiesAction(action_executions[i].action_id)

---------------------------------------------------------------------------
(* deduplicate_entries on its own: every list of up to MaxEntries entries *)

HistoryUrls == {UrlFire, UrlLs}

\* The lists of entries the browsers' databases can return: two urls, three times of
\* the last visit, two visit counts
EntryLists ==
    LET EntryInputs == {HistoryEntry(NameFire, url, visit_count, last_visit) :
                           url \in HistoryUrls, visit_count \in {1, 2},
                           last_visit \in {1, 2, 3}}
    IN  UNION {[1..k -> EntryInputs] : k \in 0..MaxEntries}

DedupInit ==
    /\ actions = <<>>
    /\ program_items = <<>>
    /\ desktop_items = <<>>
    /\ action_executions = <<>>
    /\ now = 0
    /\ discovered = EnvNone
    /\ \E entries \in EntryLists : ret = Ret("entries", entries, <<>>)
    /\ calls = <<>>
    /\ filter = <<>>
    /\ selected_index = 0
    /\ filtered_actions = <<>>
    /\ scans = <<>>
    /\ handler_rows = <<>>
    /\ history_cache = [some |-> FALSE, entries |-> <<>>]
    /\ last_cache_update = UNIX_EPOCH
    /\ seconds = 0
    /\ history_dbs = BrowserDatabases
    /\ files = NoFiles
    /\ readers = <<>>
    /\ locks = NoLocks

\* BrowserHistoryHandler::deduplicate_entries(entries)
CallDeduplicateEntries ==
    /\ ret.op = "entries"
    /\ ret' = Ret("deduplicate_entries", ret.arg,
                  Map(DeduplicateEntries(ret.arg), LAMBDA r : r.e))
    /\ UNCHANGED <<tables, now, background, calls, view, scans>>

DedupSpec == DedupInit /\ [][CallDeduplicateEntries]_vars

EntriesOfUrl(entries, url) == {i \in DOMAIN entries : entries[i].url = url}

---------------------------------------------------------------------------
(* get_history_entries_for_query and the cache of the empty query *)

CacheTtlSecs == 300
ElapsedDefaultSecs == 600

\* SystemTime::elapsed: an error, replaced by ten minutes, when the clock reads
\* earlier than the time kept
Elapsed(since, t) == IF t >= since THEN t - since ELSE ElapsedDefaultSecs

\* BrowserHistoryHandler::refresh_history_cache
RefreshHistoryCache(dbs, query) ==
    Map(DeduplicateEntries(CollectAllBrowserHistories(dbs, query)), LAMBDA r : r.e)

Lookup(entries, cache, last_update, collected) ==
    [entries |-> entries, cache |-> cache, last_update |-> last_update,
     collected |-> collected]

\* A faulty variant of GetHistoryEntriesForQuery: a cached list is returned whatever
\* its age.
GetHistoryEntriesAnyAge(dbs, query, cache, last_update, t) ==
    IF query = <<>>
    THEN IF cache.some
         THEN Lookup(cache.entries, cache, last_update, FALSE)
         ELSE Lookup(RefreshHistoryCache(dbs, <<>>),
                     [some |-> TRUE, entries |-> RefreshHistoryCache(dbs, <<>>)], t, TRUE)
    ELSE Lookup(RefreshHistoryCache(dbs, query), cache, last_update, TRUE)

\* BrowserHistoryHandler::get_history_entries_for_query at the time t: the entries
\* returned, the two statics after the call, and whether the databases were read
GetHistoryEntriesForQuery(dbs, query, cache, last_update, t) ==
    IF query = <<>>
    THEN IF cache.some /\ Elapsed(last_update, t) < CacheTtlSecs
         THEN Lookup(cache.entries, cache, last_update, FALSE)
         ELSE Lookup(RefreshHistoryCache(dbs, <<>>),
                     [some |-> TRUE, entries |-> RefreshHistoryCache(dbs, <<>>)], t, TRUE)
    ELSE Lookup(RefreshHistoryCache(dbs, query), cache, last_update, TRUE)

HistoryQueries == {<<>>, NameFire, NameLs}

CallGetHistoryEntriesForQuery(query) ==
    LET r == GetHistoryEntriesForQuery(history_dbs, query, history_cache,
                                       last_cache_update, SystemTimeNow(now, seconds))
    IN  /\ ret' = Ret("get_history_entries_for_query", query,
                      [entries |-> r.entries, collected |-> r.collected])
        /\ history_cache' = r.cache
        /\ last_cache_update' = r.last_update
        /\ UNCHANGED <<tables, now, discovered, files, readers, locks, seconds, history_dbs,
                       calls, view, scans>>

\* Half the cache's lifetime passes on the wall clock.
Wait ==
    /\ seconds < MaxWaits * (CacheTtlSecs \div 2)
    /\ seconds' = seconds + CacheTtlSecs \div 2
    /\ ret' = Idle
    /\ UNCHANGED <<tables, now, discovered, files, readers, locks, history_cache, last_cache_update,
                   history_dbs, calls, view, scans>>

NewestVisit(dbs) ==
    SetMax(UNION {{dbs[b][k].last_visit : k \in DOMAIN dbs[b]} : b \in DOMAIN dbs})

\* The user opens, in browser b, the page of its k-th row: the browser counts the
\* visit and stamps the row.
VisitPage(b, k) ==
    /\ NewestVisit(history_dbs) - NewestVisit(BrowserDatabases) < MaxVisits
    /\ history_dbs' = [history_dbs EXCEPT
                           ![b][k].visit_count = @ + 1,
                           ![b][k].last_visit = NewestVisit(history_dbs) + 1]
    /\ ret' = Idle
    /\ UNCHANGED <<tables, now, discovered, files, readers, locks, history_cache, last_cache_update,
                   seconds, calls, view, scans>>

CacheNext ==
    \/ \E query \in HistoryQueries : CallGetHistoryEntriesForQuery(query)
    \/ Wait
    \/ Tick
    \/ \E b \in DOMAIN history_dbs : \E k \in DOMAIN history_dbs[b] : VisitPage(b, k)

CacheSpec == StoreInit /\ [][CacheNext]_vars

\* C13: a call with the empty query reads the browsers' databases exactly when
\* nothing is cached or the last refresh is at least five minutes old, and then the
\* cache holds what was read and the time of the call; otherwise it returns the
\* cached list and leaves the cache and its timestamp as they were.  A call with a
\* non-empty query always reads the databases, returns what they hold whatever is
\* cached, and leaves the cache and its timestamp as they were.
C13_CacheOnlyEmptyQuery ==
    [][ret'.op = "get_history_entries_for_query" =>
         LET t == SystemTimeNow(now, seconds)
             live == RefreshHistoryCache(history_dbs, ret'.arg)
             stale == ~history_cache.some \/ t - last_cache_update >= 5 * 60
         IN  IF ret'.arg = <<>>
             THEN IF stale
                  THEN /\ ret'.result = [entries |-> live, collected |-> TRUE]
                       /\ history_cache' = [some |-> TRUE, entries |-> live]
                       /\ last_cache_update' = t
                  ELSE /\ ret'.result = [entries |-> history_cache.entries,
                                         collected |-> FALSE]
                       /\ UNCHANGED <<history_cache, last_cache_update>>
             ELSE /\ ret'.result = [entries |-> live, collected |-> TRUE]
                  /\ UNCHANGED <<history_cache, last_cache_update>>]_vars

\* The empty query, two and a half minutes after a refresh, a page visited since: the
\* databases are not read and the list returned is the older one.
C13_Witness ==
    /\ ret.op = "get_history_entries_for_query"
    /\ ret.arg = <<>>
    /\ ~ret.result.collected
    /\ SystemTimeNow(now, seconds) - last_cache_update = CacheTtlSecs \div 2
    /\ ret.result.entries = history_cache.entries
    /\ ret.result.entries # RefreshHistoryCache(history_dbs, <<>>)

---------------------------------------------------------------------------
(* get_action_relevance on its own: two actions of RunsEach executions each *)

\* The logs in which the actions 1 and 2 were executed RunsEach times each until the
\* time t, in the order of the executions
RelevanceLogs(t) ==
    LET stamps == {f \in [1..RunsEach -> 0..t] : \A i \in 1..(RunsEach - 1) : f[i] <= f[i + 1]}
        rows(text, f) == [i \in 1..RunsEach |->
                             [action_id |-> text, execution_timestamp |-> f[i]]]
    IN  {StableSort(rows("1", f) \o rows("2", g),
                    LAMBDA x, y : x.execution_timestamp < y.execution_timestamp) :
            f \in stamps, g \in stamps}

RelevanceInit ==
    /\ actions = <<>>
    /\ program_items = <<>>
    /\ desktop_items = <<>>
    /\ now \in 0..MaxTime
    /\ action_executions \in RelevanceLogs(now)
    /\ discovered = EnvNone
    /\ ret = Idle
    /\ calls = <<>>
    /\ filter = <<>>
    /\ selected_index = 0
    /\ filtered_actions = <<>>
    /\ scans = <<>>
    /\ handler_rows = <<>>
    /\ history_cache = [some |-> FALSE, entries |-> <<>>]
    /\ last_cache_update = UNIX_EPOCH
    /\ seconds = 0
    /\ history_dbs = BrowserDatabases
    /\ files = NoFiles
    /\ readers = <<>>
    /\ locks = NoLocks

\* Database::get_action_relevance(action_id)
CallGetActionRelevance(action_id) ==
    /\ ret' = Ret("get_action_relevance", action_id,
                  GetActionRelevance(action_executions, action_id, now))
    /\ UNCHANGED <<tables, now, background, calls, view, scans>>

RelevanceSpec == RelevanceInit /\ [][\E action_id \in {"1", "2"} :
                                        CallGetActionRelevance(action_id)]_vars

\* The hours of day of the executions of an action are all / none the current one
AllSameHour(text) ==
    SameHourCount(ExecutionsOfId(action_executions, text), now) = RunsEach
NoneSameHour(text) ==
    SameHourCount(ExecutionsOfId(action_executions, text), now) = 0
\* The i-th executions of the two actions are less than a day apart, for every i
AgesWithinADay ==
    \A i \in 1..RunsEach :
        LET a == ExecutionsOfId(action_executions, "1")[i].execution_timestamp
            b == ExecutionsOfId(action_executions, "2")[i].execution_timestamp
        IN  (a - b) * TickMinutes < MinutesPerDay /\ (b - a) * TickMinutes < MinutesPerDay

\* C14: at one query time, when the executions of action 1 all fall in the current
\* hour of day, those of action 2 all in another hour, and the i-th executions of the
\* two are less than a day apart, get_action_relevance returns a strictly greater
\* relevance for action 1 than for action 2 (the two calls one after the other).
C14_SameHourRanksHigher ==
    [][(/\ ret.op = "get_action_relevance" /\ ret.arg = "1"
        /\ ret'.op = "get_action_relevance" /\ ret'.arg = "2"
        /\ AllSameHour("1") /\ NoneSameHour("2") /\ AgesWithinADay)
           => ret.result.relevance > ret'.result.relevance]_vars

\* Action 1 executed a day ago in the current hour, action 2 half a day ago: the
\* decayed sum of action 2 is the larger one and its relevance the smaller one.
C14_Witness ==
    /\ ret.op = "get_action_relevance" /\ ret.arg = "2"
    /\ AllSameHour("1") /\ NoneSameHour("2") /\ AgesWithinADay
    /\ DecaySum(ExecutionsOfId(action_executions, "2"), now)
           > DecaySum(ExecutionsOfId(action_executions, "1"), now)
    /\ ret.result.relevance
           < GetActionRelevance(action_executions, "1", now).relevance

---------------------------------------------------------------------------
(* What run_selected_action reports *)

\* C15: whenever the dispatch of the selected item failed (the handler returned an
\* error, or there was no item at the selected index), run_selected_action returned
\* false: it neither panicked nor reported success.
C15_FailureIsReported ==
    (ret.op = "execute" /\ ret.result.dispatch # "ok") => ret.result.returned = "false"

---------------------------------------------------------------------------
(* Disabled handlers and the list *)

\* The handlers the handlers table holds as disabled
DisabledHandlers == {handler_rows[i].id : i \in {k \in DOMAIN handler_rows :
                                                     ~handler_rows[k].enabled}}

\* C16: while the handlers table holds a built-in handler as disabled, a list that
\* set_filter produces contains no item of that handler.
C16_DisabledNotListed ==
    [][filtered_actions' # filtered_actions =>
          \A i \in DOMAIN filtered_actions' :
              filtered_actions'[i].id.tag = "Builtin" =>
                  filtered_actions'[i].id.s \notin DisabledHandlers']_vars

---------------------------------------------------------------------------
(* accepts_args of the stored desktop actions *)

ARGUMENT_FIELD_CODES == {"%f", "%F", "%u", "%U"}

\* The desktop files behind the applications of the environments: the words of the
\* Exec line before the field codes are stripped, and the categories
DesktopFileOf(name) ==
    IF name = NameFirefox
    THEN [exec |-> <<"firefox", "%u">>, categories |-> {"Network", "WebBrowser"}]
    ELSE [exec |-> <<"afire", "--gui">>, categories |-> {"Game"}]

\* system::app_finder::parse_desktop_file, takes_args: a WebBrowser category and a
\* field code among the whitespace-delimited parts of Exec
TakesArgs(file) ==
    /\ "WebBrowser" \in file.categories
    /\ \E i \in DOMAIN file.exec : file.exec[i] \in ARGUMENT_FIELD_CODES

\* C17: every stored desktop action has accepts_args = true exactly when its desktop
\* file has the WebBrowser category and a field code %f %F %u %U as a word of Exec.
C17_AcceptsArgsFromEntry ==
    \A i \in DOMAIN desktop_items :
        desktop_items[i].accepts_args = TakesArgs(DesktopFileOf(desktop_items[i].name))

---------------------------------------------------------------------------
(* Names that differ in punctuation only *)

NameAMinusFire == <<"a", "-", "f", "i", "r", "e">>

\* One program and one desktop entry whose name carries a punctuation character
EnvPunct ==
    [executables |-> << Executable(NameFire, "/usr/bin/fire") >>,
     applications |-> << Application(NameAMinusFire, "afire") >>]

PunctFilters == {<<"a", "-", "f">>, <<"-">>, NameAfire}

PunctNext ==
    \/ CallScanSystem
    \/ \E action_id \in {"1", "2"} : CallLogExecution(action_id)
    \/ \E flt \in PunctFilters : CallGetActionsFiltered(flt)
    \/ Tick

PunctInit == DatabaseInit /\ discovered = EnvPunct

PunctSpec == PunctInit /\ [][PunctNext]_vars

\* The store with the name of the actions of one SearchName replaced by a name of
\* the same SearchName
Renamed(st, name) ==
    LET ids == {st.actions[i].id : i \in {k \in DOMAIN st.actions :
                                             st.actions[k].searchname = SearchName(name)}}
        rename(rows) == [i \in DOMAIN rows |->
                            IF rows[i].id \in ids THEN [rows[i] EXCEPT !.name = name]
                            ELSE rows[i]]
    IN  Store(rename(st.actions), rename(st.program_items), rename(st.desktop_items))

\* The relevances under which a result lists the actions of a SearchName
ListedAs(result, st, searchname) ==
    {[id |-> result.list[i].id, relevance |-> GetRelevance(result.list[i])] :
        i \in {k \in DOMAIN result.list :
                  \E j \in DOMAIN st.actions :
                      /\ st.actions[j].id = result.list[k].id
                      /\ st.actions[j].searchname = searchname}}

\* C18: what get_actions_filtered returns for the action named a-fire (whether it is
\* listed, and with which relevance) is what it returns on the store in which the
\* action is named afire, the SearchName and the execution log being the same.
C18_PunctuationIrrelevant ==
    ret.op = "get_actions_filtered" =>
        LET other == GetActionsFiltered(Renamed(CurrentStore, NameAfire),
                                        action_executions, ret.arg, now)
        IN  /\ ret.result.ok = other.ok
            /\ ListedAs(ret.result, CurrentStore, NameAfire)
                   = ListedAs(other, CurrentStore, NameAfire)

---------------------------------------------------------------------------
(* Queries leave the store alone *)

FilterInputs == {NameFire, CmdDisable}

\* The view's set_filter and commands on a store that scans, executions and the
\* clock change in between
FilterInit == DatabaseInit /\ discovered = EnvSmall

FilterNext ==
    \/ CallScanSystem
    \/ \E action_id \in {"1", GOOGLE_SEARCH} : CallLogExecution(action_id)
    \/ Tick
    \/ \E new_filter \in FilterInputs : SetFilter(new_filter)
    \/ RunCommand

FilterSpec == FilterInit /\ [][FilterNext]_vars

---------------------------------------------------------------------------
(* The handlers table through ActionHandlerModel *)

\* ActionHandlerModel::insert: INSERT OR IGNORE INTO handlers (id); enabled DEFAULT 1
HandlerInsert(rows, id) ==
    IF \E i \in DOMAIN rows : rows[i].id = id THEN rows
    ELSE Append(rows, [id |-> id, enabled |-> TRUE])

\* ActionHandlerModel::set_enabled: UPDATE handlers SET enabled = ?1 WHERE id = ?2
SetEnabled(rows, handler_id, enabled) ==
    [i \in DOMAIN rows |->
        IF rows[i].id = handler_id THEN [rows[i] EXCEPT !.enabled = enabled] ELSE rows[i]]

\* ActionHandlerModel::get_active_handlers: SELECT id FROM handlers WHERE enabled = 1
GetActiveHandlers(rows) == Map(SelectSeq(rows, LAMBDA r : r.enabled), LAMBDA r : r.id)

HandlerIds == {GOOGLE_SEARCH, URL_OPEN, BROWSER_HISTORY}

CallHandlerInsert(id) ==
    /\ handler_rows' = HandlerInsert(handler_rows, id)
    /\ ret' = Ret("handler_insert", id, 0)
    /\ UNCHANGED <<actions, program_items, desktop_items, action_executions, now,
                   background, calls, view, scans>>

CallSetEnabled(handler_id, enabled) ==
    /\ handler_rows' = SetEnabled(handler_rows, handler_id, enabled)
    /\ ret' = Ret("set_enabled", handler_id, enabled)
    /\ UNCHANGED <<actions, program_items, desktop_items, action_executions, now,
                   background, calls, view, scans>>

CallGetActiveHandlers ==
    /\ ret' = Ret("get_active_handlers", <<>>, GetActiveHandlers(handler_rows))
    /\ UNCHANGED <<tables, now, background, calls, view, scans>>

HandlerNext ==
    \/ \E id \in HandlerIds : CallHandlerInsert(id)
    \/ \E id \in HandlerIds, enabled \in BOOLEAN : CallSetEnabled(id, enabled)
    \/ CallGetActiveHandlers

HandlerSpec == StoreInit /\ [][HandlerNext]_vars

\* The stored flag of a handler: "none" when the table has no row of it
StoredFlag(rows, id) ==
    IF \E i \in DOMAIN rows : rows[i].id = id
    THEN IF (rows[CHOOSE i \in DOMAIN rows : rows[i].id = id]).enabled
         THEN "enabled" ELSE "disabled"
    ELSE "none"

\* C20: registering a handler that has no row stores it as enabled; registering a
\* handler again leaves its flag as it was; after setting the flag of a handler to v
\* the stored flag reads v, also when the handler had no row; no call changes the
\* flag of another handler.
C20_FlagFollowsCommands ==
    [][/\ ret'.op = "handler_insert" =>
              StoredFlag(handler_rows', ret'.arg)
                  = IF StoredFlag(handler_rows, ret'.arg) = "none" THEN "enabled"
                    ELSE StoredFlag(handler_rows, ret'.arg)
       /\ ret'.op = "set_enabled" =>
              StoredFlag(handler_rows', ret'.arg)
                  = IF ret'.result THEN "enabled" ELSE "disabled"
       /\ \A id \in HandlerIds :
              (ret'.op \in {"handler_insert", "set_enabled"} /\ id # ret'.arg)
                  => StoredFlag(handler_rows', id) = StoredFlag(handler_rows, id)
       /\ ret'.op = "get_active_handlers" => UNCHANGED handler_rows]_vars

---------------------------------------------------------------------------
(* The kind of an action and its score *)

\* Programs and desktop entries of the same names: after a scan the program fire is
\* the action 1 and the desktop entry fire the action 4.  Five of the six actions
\* contain "fire"; "fir" does not.
EnvKinds ==
    [executables |-> << Executable(NameFire, "/usr/bin/fire"),
                        Executable(NameAfire, "/usr/bin/afire"),
                        Executable(NameFir, "/usr/bin/fir") >>,
     applications |-> << Application(NameFire, "fire --gui"),
                         Application(NameAfire, "afire --gui"),
                         Application(NameFirefox, "firefox") >>]

KindInit == DatabaseInit /\ discovered = EnvKinds

KindNext ==
    \/ CallScanSystem
    \/ \E action_id \in {"1", "4"} : CallLogExecution(action_id)
    \/ \E action_id \in {"1", "4"} : CallGetActionRelevance(action_id)
    \/ \E flt \in {NameFire, NameAfire} : CallGetActionsFiltered(flt)
    \/ Tick

KindSpec == KindInit /\ [][KindNext]_vars

\* The two actions were executed at the same times
SameHistory(a, b) ==
    LET x == ExecutionsOfAction(action_executions, a.id)
        y == ExecutionsOfAction(action_executions, b.id)
    IN  /\ Len(x) = Len(y)
        /\ \A i \in DOMAIN x : x[i].execution_timestamp = y[i].execution_timestamp

\* d is 1.1 times p, up to the truncation of the two scores to integers
KindRatio(d, p) == 10 * d - 11 * p < 11 /\ 11 * p - 10 * d < 11

\* C21: a desktop action and a program action of identical execution histories and
\* of the same name and searchname have scores in the ratio 1.1 to 1: the relevance
\* of the two handlers in the result of a query, and the relevance that
\* get_action_relevance returns for the two ids.
C21_DesktopBoost ==
    /\ (IsQuery /\ ~IsBlank(ret.arg) /\ ret.result.ok) =>
           \A i, j \in DOMAIN ResultList :
               LET d == ResultList[i]
                   p == ResultList[j]
               IN  (/\ d.action_type = "desktop" /\ p.action_type = "program"
                    /\ d.name = p.name
                    /\ RowOf(d).searchname = RowOf(p).searchname
                    /\ SameHistory(d, p)) => KindRatio(d.relevance, p.relevance)
    /\ ret.op = "get_action_relevance" =>
           \A i, j \in DOMAIN actions :
               LET d == actions[i]
                   p == actions[j]
               IN  (/\ d.action_type = "desktop" /\ p.action_type = "program"
                    /\ Decimal[d.id] = ret.arg
                    /\ SameHistory(d, p)) =>
                       KindRatio(ret.result.relevance,
                                 GetActionRelevance(action_executions, Decimal[p.id],
                                                    now).relevance)

---------------------------------------------------------------------------
(* The fuzzy tier on stores of several sizes *)

\* The largest number of programs whose names resemble the query
MaxSimilar == 11

\* fira, firb, ...: names that share the trigram "fir" with the query "fire" and
\* do not contain it
SimilarName(i) ==
    NameFir \o <<(<<"a", "b", "c", "d", "f", "g", "h", "i", "l", "n", "o", "p">>)[i]>>

\* PATH holds the first k of these programs
EnvSimilar(k) ==
    [executables |-> [i \in 1..k |-> Executable(SimilarName(i), "/usr/bin/fir")],
     applications |-> << >>]

FuzzyInit ==
    /\ DatabaseInit
    /\ discovered \in {EnvSimilar(k) : k \in {1, MaxSimilar - 1, MaxSimilar}}

FuzzyNext ==
    \/ CallScanSystem
    \/ \E action_id \in {"1", "11"} : CallLogExecution(action_id)
    \/ \E flt \in {NameFire, SimilarName(1)} : CallGetActionsFiltered(flt)
    \/ Tick

FuzzySpec == FuzzyInit /\ [][FuzzyNext]_vars

\* The trigram similarity of the action's searchname to the lowercased filter is
\* greater than 0.1
Similar(a, f) ==
    LET sim == CalculateTrigramSimilarity(GenerateTrigrams(f), GenerateTrigrams(a.searchname))
    IN  ThresholdDen * sim.num > sim.den

ResultIds == {ResultList[i].id : i \in DOMAIN ResultList}

\* No action matches the filter of the last query directly
NoDirectMatch ==
    \A i \in DOMAIN actions : ~DirectMatch(actions[i], ToLowercase(ret.arg))

SimilarActions == {i \in DOMAIN actions : Similar(actions[i], ToLowercase(ret.arg))}

\* C22 as stated: when a query with a non-blank filter has no direct match, every
\* action whose searchname has a trigram similarity above 0.1 to the filter is in
\* the result, whatever the size of the store and the executions logged.
C22_FuzzyReturnsSimilar_Original ==
    (IsQuery /\ ~IsBlank(ret.arg) /\ NoDirectMatch) =>
        \A i \in SimilarActions : actions[i].id \in ResultIds

\* C22: the same, for a store of at most 100 actions of which at most ten have a
\* similarity above 0.1.
C22_FuzzyReturnsSimilar ==
    (/\ IsQuery /\ ~IsBlank(ret.arg) /\ NoDirectMatch
     /\ Len(actions) <= FuzzyCandidates
     /\ Cardinality(SimilarActions) <= FuzzyLimit) =>
        \A i \in SimilarActions : actions[i].id \in ResultIds

\* Ten similar programs, the first of them executed before: all ten are returned.
C22_Witness ==
    /\ IsQuery /\ ~IsBlank(ret.arg) /\ NoDirectMatch
    /\ Cardinality(SimilarActions) = FuzzyLimit
    /\ RankScoreNum(action_executions, 1, now) > 0
    /\ \A i \in SimilarActions : actions[i].id \in ResultIds

---------------------------------------------------------------------------
(* The order and the length of a query's result *)

\* C23: the result of a query with a non-blank filter is in order of descending
\* relevance of the handlers returned and, for equal relevance, of ascending name.
C23_SortedByRelevance ==
    (IsQuery /\ ~IsBlank(ret.arg) /\ ret.result.ok) =>
        \A i, j \in DOMAIN ResultList :
            i < j => \/ ResultList[i].relevance > ResultList[j].relevance
                     \/ /\ ResultList[i].relevance = ResultList[j].relevance
                        /\ ~StrLess(ResultList[j].name, ResultList[i].name)

\* C24: the result of a query with a non-blank filter has at most ten actions and
\* no action id twice.
C24_AtMostTenDistinct ==
    (IsQuery /\ ~IsBlank(ret.arg) /\ ret.result.ok) =>
        /\ Len(ResultList) <= MaxResults
        /\ \A i, j \in DOMAIN ResultList : ResultList[i].id = ResultList[j].id => i = j

\* A store of more than ten actions, one of them found by the direct tier and by the
\* fuzzy tier, ten more by the fuzzy tier alone: ten are returned, that one among them.
C24_Witness ==
    /\ IsQuery /\ ~IsBlank(ret.arg) /\ ret.result.ok
    /\ Len(actions) > MaxResults
    /\ Cardinality(SimilarActions) > MaxResults
    /\ Len(ResultList) = MaxResults
    /\ \E i \in SimilarActions :
           /\ DirectMatch(actions[i], ToLowercase(ret.arg))
           /\ actions[i].id \in ResultIds

\* The actions that match the filter of the last query directly
DirectActions == {i \in DOMAIN actions : DirectMatch(actions[i], ToLowercase(ret.arg))}

---------------------------------------------------------------------------
(* calculate_trigram_similarity on its own *)

\* The longest text compared
MaxTextLen == 4

\* The texts over two letters, up to that length
TrigramTexts == UNION {[1..k -> {"a", "b"}] : k \in 0..MaxTextLen}

\* The filter is any of the texts.
TrigramInit ==
    /\ actions = <<>>
    /\ program_items = <<>>
    /\ desktop_items = <<>>
    /\ action_executions = <<>>
    /\ now = 0
    /\ discovered = EnvNone
    /\ ret = Idle
    /\ calls = <<>>
    /\ filter \in TrigramTexts
    /\ selected_index = 0
    /\ filtered_actions = <<>>
    /\ scans = <<>>
    /\ handler_rows = <<>>
    /\ history_cache = [some |-> FALSE, entries |-> <<>>]
    /\ last_cache_update = UNIX_EPOCH
    /\ seconds = 0
    /\ history_dbs = BrowserDatabases
    /\ files = NoFiles
    /\ readers = <<>>
    /\ locks = NoLocks

\* self.calculate_trigram_similarity(filter_trigrams, &name_trigrams), as the fuzzy
\* tier calls it for a candidate's searchname
CallCalculateTrigramSimilarity(searchname) ==
    /\ ret' = Ret("calculate_trigram_similarity", searchname,
                  CalculateTrigramSimilarity(GenerateTrigrams(filter),
                                             GenerateTrigrams(searchname)))
    /\ UNCHANGED <<tables, now, background, calls, view, scans>>

TrigramSpec ==
    TrigramInit /\ [][\E searchname \in TrigramTexts :
                          CallCalculateTrigramSimilarity(searchname)]_vars

\* The set of the trigrams of a text
TrigramSet(text) == {GenerateTrigrams(text)[i] : i \in DOMAIN GenerateTrigrams(text)}

\* C26: the similarity returned for the filter and a searchname is the Jaccard ratio
\* of their trigram sets, |Q \cap N| / |Q \cup N|; it lies between 0 and 1 and is the
\* value that the call with the arguments swapped returns.
C26_JaccardSimilarity ==
    ret.op = "calculate_trigram_similarity" =>
        LET Q == TrigramSet(filter)
            N == TrigramSet(ret.arg)
            sim == ret.result
            swapped == CalculateTrigramSimilarity(GenerateTrigrams(ret.arg),
                                                  GenerateTrigrams(filter))
        IN  /\ sim.num * Cardinality(Q \cup N) = Cardinality(Q \cap N) * sim.den
            /\ 0 <= sim.num /\ sim.num <= sim.den
            /\ sim.num * swapped.den = swapped.num * sim.den

---------------------------------------------------------------------------
(* DesktopEntryDiscovery: the desktop files and what is parsed from them *)

\* The letters of "%f", "%F", ... in the order of DESKTOP_ENTRY_FIELD_CODES
DESKTOP_ENTRY_FIELD_CODES ==
    <<"f", "F", "u", "U", "d", "D", "n", "N", "i", "c", "k", "v", "m">>

\* str::replace("%x", ""): the occurrences found from the left, each removed
RECURSIVE RemoveCode(_, _)
RemoveCode(text, letter) ==
    IF Len(text) < 2 THEN text
    ELSE IF text[1] = "%" /\ text[2] = letter
         THEN RemoveCode(SubSeq(text, 3, Len(text)), letter)
         ELSE <<text[1]>> \o RemoveCode(Tail(text), letter)

\* str::trim
Trim(text) ==
    LET kept == {i \in DOMAIN text : ~IsWhitespace(text[i])}
    IN  IF kept = {} THEN <<>>
        ELSE SubSeq(text, CHOOSE i \in kept : \A j \in kept : i <= j,
                          CHOOSE i \in kept : \A j \in kept : j <= i)

\* The fold over the field codes: one replace per code, in the order of the list
RECURSIVE FoldCodes(_, _)
FoldCodes(text, i) ==
    IF i > Len(DESKTOP_ENTRY_FIELD_CODES) THEN text
    ELSE FoldCodes(RemoveCode(text, DESKTOP_ENTRY_FIELD_CODES[i]), i + 1)

\* strip_field_codes
StripFieldCodes(exec) == Trim(FoldCodes(exec, 1))

\* A line of a desktop file: the line "[Desktop Entry]" (kind "entry"), another line
\* that starts with "[" (kind "group"), or a line key=value (kind "pair")
Line(kind, key, value) == [kind |-> kind, key |-> key, value |-> value]

TypeApplication == <<"A", "p", "p", "l", "i", "c", "a", "t", "i", "o", "n">>
TypeLink == <<"L", "i", "n", "k">>

\* DesktopEntryData::default
DefaultEntryData == [name |-> <<>>, exec |-> <<>>, type_entry |-> <<>>]

\* DesktopEntryData::update_field (the Icon has no part in what is stored)
UpdateField(data, key, value) ==
    IF key = "Name" THEN [data EXCEPT !.name = value]
    ELSE IF key = "Exec" THEN [data EXCEPT !.exec = StripFieldCodes(value)]
    ELSE IF key = "Type" THEN [data EXCEPT !.type_entry = value]
    ELSE data

\* The assignments in the loop of system::app_finder::parse_desktop_file: the Exec
\* value is kept as read
AssignField(data, key, value) ==
    IF key = "Exec" THEN [data EXCEPT !.exec = value] ELSE UpdateField(data, key, value)

\* The loop of parse_desktop_file over the lines, in app_finder and (system) in
\* system::app_finder
RECURSIVE ReadLines(_, _, _, _, _)
ReadLines(lines, i, data, in_desktop_entry, system) ==
    IF i > Len(lines) THEN data
    ELSE IF lines[i].kind = "entry" THEN ReadLines(lines, i + 1, data, TRUE, system)
    ELSE IF lines[i].kind = "group" THEN ReadLines(lines, i + 1, data, FALSE, system)
    ELSE IF in_desktop_entry
         THEN ReadLines(lines, i + 1,
                        IF system THEN AssignField(data, lines[i].key, Trim(lines[i].value))
                        ELSE UpdateField(data, lines[i].key, Trim(lines[i].value)),
                        TRUE, system)
         ELSE ReadLines(lines, i + 1, data, FALSE, system)

\* DesktopEntryData::build_app_info: the list of no or one AppInfo
BuildAppInfo(data) ==
    IF data.type_entry # TypeApplication \/ data.name = <<>> \/ data.exec = <<>>
    THEN <<>>
    ELSE <<Application(data.name, data.exec)>>

\* app_finder::parse_desktop_file
ParseDesktopFile(lines) == BuildAppInfo(ReadLines(lines, 1, DefaultEntryData, FALSE, FALSE))

\* system::app_finder::parse_desktop_file: the entry is tested with the Exec value
\* as read, and the field codes are stripped after the test
SystemParseDesktopFile(lines) ==
    LET data == ReadLines(lines, 1, DefaultEntryData, FALSE, TRUE)
    IN  IF data.type_entry # TypeApplication \/ data.name = <<>> \/ data.exec = <<>>
        THEN <<>>
        ELSE <<Application(data.name, StripFieldCodes(data.exec))>>

\* scan_desktopentries of app_finder and (system) of system::app_finder: the entries
\* parsed from the desktop files, in directory order
RECURSIVE ScanDesktopentries(_, _)
ScanDesktopentries(desktop_files, system) ==
    IF desktop_files = <<>> THEN <<>>
    ELSE (IF system THEN SystemParseDesktopFile(Head(desktop_files))
          ELSE ParseDesktopFile(Head(desktop_files)))
         \o ScanDesktopentries(Tail(desktop_files), system)

---------------------------------------------------------------------------
(* ExecutableDiscovery: the directories on PATH and what is found in them *)

\* A directory entry: its path; whether reading it from the directory fails ("error"),
\* opening it fails ("unopenable": a broken symlink, an unreadable file), it has fewer
\* than four bytes ("short"), or none of these ("ok"); the file it resolves to
DirEntry(path, state, target) == [path |-> path, state |-> state, target |-> target]

\* A regular file: its canonical path and its file name
TargetFile(path, name) == [path |-> path, name |-> name]

\* get_executable_info: Err, Ok(None), or Ok(Some(FileInfo)) with the canonical path
\* and its file name
GetExecutableInfo(entry) ==
    IF entry.state = "unopenable" THEN [ok |-> FALSE, info |-> <<>>]
    ELSE IF entry.state = "short" THEN [ok |-> TRUE, info |-> <<>>]
    ELSE [ok |-> TRUE, info |-> <<Executable(entry.target.name, entry.target.path)>>]

\* scan_directory from the i-th entry on: `entry?` returns at the first entry that
\* cannot be read, with what was pushed before; an entry path seen before is skipped
RECURSIVE ScanDirectory(_, _, _)
ScanDirectory(entries, i, found) ==
    IF i > Len(entries) THEN found
    ELSE IF entries[i].state = "error" THEN found
    ELSE IF entries[i].path \in found.seen_paths THEN ScanDirectory(entries, i + 1, found)
    ELSE ScanDirectory(entries, i + 1,
             [executables |-> found.executables \o GetExecutableInfo(entries[i]).info,
              seen_paths |-> found.seen_paths \cup {entries[i].path}])

\* scan_path_executables: the directories of PATH, then the additional ones, one
\* after the other; an error of scan_directory is logged and the next directory read
RECURSIVE ScanDirectories(_, _, _)
ScanDirectories(dirs, d, found) ==
    IF d > Len(dirs) THEN found.executables
    ELSE ScanDirectories(dirs, d + 1, ScanDirectory(dirs[d], 1, found))

ScanPathExecutables(dirs) ==
    ScanDirectories(dirs, 1, [executables |-> <<>>, seen_paths |-> {}])

\* What the two scanners of scan_system return on the files
Discover(fs) ==
    [executables |-> ScanPathExecutables(fs.path),
     applications |-> ScanDesktopentries(fs.desktop, FALSE)]

---------------------------------------------------------------------------
(* The scan of desktop files of every Exec line and of lines in and out of the
   [Desktop Entry] section *)

\* The longest Exec value, and the number of key lines in the section
MaxExecLen == 4
MaxBody == 3

ExecTexts == UNION {[1..k -> {"%", "f", "u", "x", " "}] : k \in 0..MaxExecLen}

EntryLine == Line("entry", "", <<>>)

\* A file for the application fire with the given Exec value
ExecFile(exec) ==
    << EntryLine, Line("pair", "Type", TypeApplication), Line("pair", "Name", NameFire),
       Line("pair", "Exec", exec) >>

BodyLines ==
    { Line("pair", "Type", TypeApplication), Line("pair", "Type", TypeLink),
      Line("pair", "Name", NameFire), Line("pair", "Name", <<>>),
      Line("pair", "Exec", <<"x">>), Line("pair", "Exec", <<"%", "u">>),
      Line("pair", "Exec", <<>>) }

\* Lines before the section, and another group with a key after it
LinesBefore ==
    { <<>>, <<Line("pair", "Type", TypeApplication)>>, <<Line("pair", "Name", NameFire)>>,
      <<Line("pair", "Exec", <<"x">>)>> }
LinesAfter ==
    { <<>>, <<Line("group", "", <<>>), Line("pair", "Type", TypeLink)>>,
      <<Line("group", "", <<>>), Line("pair", "Name", NameLs)>>,
      <<Line("group", "", <<>>), Line("pair", "Exec", <<>>)>> }

DesktopFiles ==
    {ExecFile(exec) : exec \in ExecTexts}
    \cup {before \o <<EntryLine>> \o body \o after :
              before \in LinesBefore, body \in [1..MaxBody -> BodyLines],
              after \in LinesAfter}

\* One desktop file in the application directories
DesktopInit ==
    /\ actions = <<>>
    /\ program_items = <<>>
    /\ desktop_items = <<>>
    /\ action_executions = <<>>
    /\ now = 0
    /\ discovered = EnvNone
    /\ ret = Idle
    /\ calls = <<>>
    /\ filter = <<>>
    /\ selected_index = 0
    /\ filtered_actions = <<>>
    /\ scans = <<>>
    /\ handler_rows = <<>>
    /\ history_cache = [some |-> FALSE, entries |-> <<>>]
    /\ last_cache_update = UNIX_EPOCH
    /\ seconds = 0
    /\ history_dbs = BrowserDatabases
    /\ files \in {[desktop |-> <<file>>, path |-> <<>>] : file \in DesktopFiles}
    /\ readers = <<>>
    /\ locks = NoLocks

\* scan_desktopentries() of app_finder or (system) of system::app_finder
CallScanDesktopentries(system) ==
    /\ ret' = Ret("scan_desktopentries", system, ScanDesktopentries(files.desktop, system))
    /\ UNCHANGED <<tables, now, background, calls, view, scans>>

\* ActionScanner::scan_system(db), the scanners reading the files
CallScanSystemOnFiles ==
    LET st == ScanSystem(CurrentStore, Discover(files))
    IN  /\ actions' = st.actions
        /\ program_items' = st.program_items
        /\ desktop_items' = st.desktop_items
        /\ ret' = Ret("scan_system", <<>>, 0)
        /\ UNCHANGED <<handler_rows, action_executions, now, background, calls, view, scans>>

DesktopNext ==
    \/ \E system \in BOOLEAN : CallScanDesktopentries(system)
    \/ CallScanSystemOnFiles

DesktopSpec == DesktopInit /\ [][DesktopNext]_vars

\* The text holds one of the field codes
HasFieldCode(text) ==
    \E i \in 1..(Len(text) - 1), c \in DOMAIN DESKTOP_ENTRY_FIELD_CODES :
        text[i] = "%" /\ text[i + 1] = DESKTOP_ENTRY_FIELD_CODES[c]

\* C27: no exec command of a stored desktop item, and none of an entry that
\* scan_desktopentries returns, holds one of the field codes.
C27_NoFieldCodeStored ==
    /\ \A i \in DOMAIN desktop_items : ~HasFieldCode(desktop_items[i].exec)
    /\ ret.op = "scan_desktopentries" =>
           \A i \in DOMAIN ret.result : ~HasFieldCode(ret.result[i].exec)

\* The value of the last line key=... of the file that stands in the [Desktop Entry]
\* section, trimmed; empty when there is none
LastInside(lines, key) ==
    LET inside(i) == \E j \in 1..(i - 1) :
                         /\ lines[j].kind = "entry"
                         /\ \A k \in (j + 1)..(i - 1) : lines[k].kind # "group"
        found == {i \in DOMAIN lines :
                      lines[i].kind = "pair" /\ lines[i].key = key /\ inside(i)}
    IN  IF found = {} THEN <<>> ELSE Trim(lines[SetMax(found)].value)

\* C28: scan_desktopentries returns an entry for a desktop file exactly when the
\* [Desktop Entry] section of the file gives the Type Application, a Name and an Exec
\* that is not empty after the field codes are stripped, and the entry carries that
\* Name and that Exec, whatever keys stand outside the section; no stored desktop
\* item has an empty name or an empty exec command.
C28_OnlyValidEntries ==
    /\ \A i \in DOMAIN desktop_items :
           desktop_items[i].name # <<>> /\ desktop_items[i].exec # <<>>
    /\ ret.op = "scan_desktopentries" =>
           LET lines == files.desktop[1]
               name == LastInside(lines, "Name")
               exec == StripFieldCodes(LastInside(lines, "Exec"))
               valid == /\ LastInside(lines, "Type") = TypeApplication
                        /\ name # <<>>
                        /\ exec # <<>>
           IN  ret.result = IF valid THEN <<Application(name, exec)>> ELSE <<>>

---------------------------------------------------------------------------
(* The scan of directories with symlinks and entries that cannot be read *)

\* The largest number of directories on PATH and among the additional paths
MaxDirs == 3

TargetFire == TargetFile("/opt/fire/fire", NameFire)
TargetLs == TargetFile("/opt/ls/ls", NameLs)

\* What an entry can be: a link to one of two files, a file too short to have a
\* magic number, an entry that cannot be read or cannot be opened
EntryKinds ==
    { [state |-> "ok", target |-> TargetFire], [state |-> "ok", target |-> TargetLs],
      [state |-> "short", target |-> TargetFire],
      [state |-> "error", target |-> TargetFire],
      [state |-> "unopenable", target |-> TargetFire] }

\* The directory /a has the entries /a/1 and /a/2, the directory /b the entry /b/1;
\* PATH and the additional paths name these directories, possibly more than once
PathFiles ==
    { [d \in DOMAIN dirs |->
          IF dirs[d] = "a"
          THEN << DirEntry("/a/1", a1.state, a1.target), DirEntry("/a/2", a2.state, a2.target) >>
          ELSE << DirEntry("/b/1", b1.state, b1.target) >>] :
        a1 \in EntryKinds, a2 \in EntryKinds, b1 \in EntryKinds,
        dirs \in UNION {[1..n -> {"a", "b"}] : n \in 1..MaxDirs} }

PathInit ==
    /\ actions = <<>>
    /\ program_items = <<>>
    /\ desktop_items = <<>>
    /\ action_executions = <<>>
    /\ now = 0
    /\ discovered = EnvNone
    /\ ret = Idle
    /\ calls = <<>>
    /\ filter = <<>>
    /\ selected_index = 0
    /\ filtered_actions = <<>>
    /\ scans = <<>>
    /\ handler_rows = <<>>
    /\ history_cache = [some |-> FALSE, entries |-> <<>>]
    /\ last_cache_update = UNIX_EPOCH
    /\ seconds = 0
    /\ history_dbs = BrowserDatabases
    /\ files \in {[desktop |-> <<>>, path |-> dirs] : dirs \in PathFiles}
    /\ readers = <<>>
    /\ locks = NoLocks

\* scan_path_executables()
CallScanPathExecutables ==
    /\ ret' = Ret("scan_path_executables", <<>>, ScanPathExecutables(files.path))
    /\ UNCHANGED <<tables, now, background, calls, view, scans>>

PathNext == CallScanPathExecutables \/ CallScanSystemOnFiles

PathSpec == PathInit /\ [][PathNext]_vars

\* C29: the list that scan_path_executables returns has no two entries of the same
\* canonical path.
C29_NoDuplicatePaths ==
    ret.op = "scan_path_executables" =>
        \A i, j \in DOMAIN ret.result : ret.result[i].path = ret.result[j].path => i = j

\* C30: every entry of a directory on the list that can be read and opened and has
\* its four bytes is among the executables that scan_path_executables returns,
\* whatever the other entries of the directories are.
C30_ErrorsSkipOneEntry ==
    ret.op = "scan_path_executables" =>
        \A d \in DOMAIN files.path : \A i \in DOMAIN files.path[d] :
            files.path[d][i].state = "ok" =>
                \E k \in DOMAIN ret.result :
                    ret.result[k].path = files.path[d][i].target.path

---------------------------------------------------------------------------
(* HistoryCollector: the browsers' directories and databases, some of which cannot
   be listed, copied or queried *)

\* A history database found at one path: what copying and querying it does, and the
\* rows it holds
HistoryDb(state, rows) == [state |-> state, rows |-> rows]

\* A Firefox directory of one install type: what listing it does, and its entries
ProfilesDir(state, profiles) == [state |-> state, profiles |-> profiles]

\* One browser of get_supported_browsers with build_browser_paths' paths
Browser(browser_type, paths) == [browser_type |-> browser_type, paths |-> paths]

Collected(entries) == [ok |-> TRUE, entries |-> entries]
CollectFailed == [ok |-> FALSE, entries |-> <<>>]

\* The loop over fs::read_dir(firefox_dir)? of get_firefox_history: `dir_entry?`
\* returns the error; an entry without places.sqlite is passed over; a failed copy
\* continues; a failed read_firefox_db adds nothing
RECURSIVE ReadProfiles(_, _, _, _)
ReadProfiles(profiles, i, search_term, entries) ==
    IF i > Len(profiles) THEN Collected(entries)
    ELSE IF profiles[i].state = "entry_error" THEN CollectFailed
    ELSE IF profiles[i].state = "ok"
         THEN ReadProfiles(profiles, i + 1, search_term,
                           entries \o ReadHistoryDb(profiles[i].rows, search_term))
    ELSE ReadProfiles(profiles, i + 1, search_term, entries)

\* HistoryCollector::get_firefox_history from the directory i on
RECURSIVE GetFirefoxHistoryFrom(_, _, _, _)
GetFirefoxHistoryFrom(firefox_dirs, i, search_term, entries) ==
    IF i > Len(firefox_dirs) THEN Collected(entries)
    ELSE IF firefox_dirs[i].state = "missing"
         THEN GetFirefoxHistoryFrom(firefox_dirs, i + 1, search_term, entries)
    ELSE IF firefox_dirs[i].state = "unreadable" THEN CollectFailed
    ELSE LET read == ReadProfiles(firefox_dirs[i].profiles, 1, search_term, entries)
         IN  IF read.ok
             THEN GetFirefoxHistoryFrom(firefox_dirs, i + 1, search_term, read.entries)
             ELSE CollectFailed

\* HistoryCollector::get_firefox_history
GetFirefoxHistory(firefox_dirs, search_term) ==
    GetFirefoxHistoryFrom(firefox_dirs, 1, search_term, <<>>)

\* A faulty variant of GetChromiumBasedHistory: a database that cannot be copied or
\* queried ends the browser's collection with an error.
RECURSIVE GetChromiumBasedHistoryAbortFrom(_, _, _, _)
GetChromiumBasedHistoryAbortFrom(db_paths, i, search_term, entries) ==
    IF i > Len(db_paths) THEN Collected(entries)
    ELSE IF db_paths[i].state = "missing"
         THEN GetChromiumBasedHistoryAbortFrom(db_paths, i + 1, search_term, entries)
    ELSE IF db_paths[i].state = "ok"
         THEN GetChromiumBasedHistoryAbortFrom(
                  db_paths, i + 1, search_term,
                  entries \o ReadHistoryDb(db_paths[i].rows, search_term))
    ELSE CollectFailed

GetChromiumBasedHistoryAbort(db_paths, search_term) ==
    GetChromiumBasedHistoryAbortFrom(db_paths, 1, search_term, <<>>)

\* The loop of get_chromium_based_history: a path that does not exist and a failed
\* copy continue; a failed read_chromium_db adds nothing
RECURSIVE GetChromiumBasedHistoryFrom(_, _, _, _)
GetChromiumBasedHistoryFrom(db_paths, i, search_term, entries) ==
    IF i > Len(db_paths) THEN Collected(entries)
    ELSE IF db_paths[i].state = "ok"
         THEN GetChromiumBasedHistoryFrom(
                  db_paths, i + 1, search_term,
                  entries \o ReadHistoryDb(db_paths[i].rows, search_term))
    ELSE GetChromiumBasedHistoryFrom(db_paths, i + 1, search_term, entries)

\* HistoryCollector::get_chromium_based_history
GetChromiumBasedHistory(db_paths, search_term) ==
    GetChromiumBasedHistoryFrom(db_paths, 1, search_term, <<>>)

\* HistoryCollector::get_browser_history
GetBrowserHistory(browser, search_term) ==
    IF browser.browser_type = "Firefox"
    THEN GetFirefoxHistory(browser.paths, search_term)
    ELSE GetChromiumBasedHistory(browser.paths, search_term)

\* HistoryCollector::collect_all_browser_histories over the browsers in the order the
\* map of get_supported_browsers yields them: a browser whose collection returned an
\* error adds nothing
RECURSIVE CollectBrowsersFrom(_, _, _)
CollectBrowsersFrom(browsers, i, search_term) ==
    IF i > Len(browsers) THEN <<>>
    ELSE LET browser_entries == GetBrowserHistory(browsers[i], search_term)
         IN  (IF browser_entries.ok THEN browser_entries.entries ELSE <<>>)
             \o CollectBrowsersFrom(browsers, i + 1, search_term)

CollectAllBrowserHistoriesOf(browsers, search_term) ==
    CollectBrowsersFrom(browsers, 1, search_term)

---------------------------------------------------------------------------
(* The collection over every state of two Firefox directories and two databases of
   Chrome *)

MaxProfiles == 2

\* The rows of the k-th database: a page of its own and a page every browser visited
UrlOfDb(k) == <<"a", ":", <<"a", "b", "c", "d", "e", "f", "g", "h", "i">>[k]>>
RowsOfDb(k) ==
    << HistoryEntry(NameFire, UrlOfDb(k), 1, k), HistoryEntry(NameLs, UrlLs, 1, 10 + k) >>

ProfileStates == {"entry_error", "no_places", "copy_fails", "query_fails", "ok"}
DbStates == {"missing", "copy_fails", "query_fails", "ok"}

\* The entries of a directory whose first database is the one numbered first
ProfileLists(first, max) ==
    UNION {{[i \in 1..n |-> HistoryDb(states[i], RowsOfDb(first + i - 1))] :
               states \in [1..n -> ProfileStates]} : n \in 0..max}

FirefoxDirs(first, max) ==
    {ProfilesDir("missing", <<>>), ProfilesDir("unreadable", <<>>)}
        \cup {ProfilesDir("ok", profiles) : profiles \in ProfileLists(first, max)}

FirefoxBrowsers ==
    {Browser("Firefox", <<standard, snap>>) :
        standard \in FirefoxDirs(1, MaxProfiles), snap \in FirefoxDirs(MaxProfiles + 1, 1)}

ChromeBrowsers ==
    {Browser("Chrome", <<HistoryDb(default, RowsOfDb(MaxProfiles + 2)),
                         HistoryDb(profile1, RowsOfDb(MaxProfiles + 3))>>) :
        default \in DbStates, profile1 \in DbStates}

\* The map of browsers in either order of iteration
BrowserOrders(firefox, chrome) == {<<firefox, chrome>>, <<chrome, firefox>>}

CollectInit ==
    /\ actions = <<>>
    /\ program_items = <<>>
    /\ desktop_items = <<>>
    /\ action_executions = <<>>
    /\ now = 0
    /\ discovered = EnvNone
    /\ ret = Idle
    /\ calls = <<>>
    /\ filter = <<>>
    /\ selected_index = 0
    /\ filtered_actions = <<>>
    /\ scans = <<>>
    /\ handler_rows = <<>>
    /\ history_cache = [some |-> FALSE, entries |-> <<>>]
    /\ last_cache_update = UNIX_EPOCH
    /\ seconds = 0
    /\ history_dbs = BrowserDatabases
    /\ \E firefox \in FirefoxBrowsers, chrome \in ChromeBrowsers :
           \E browsers \in BrowserOrders(firefox, chrome) :
              files = [desktop |-> <<>>, path |-> <<>>, browsers |-> browsers]
    /\ readers = <<>>
    /\ locks = NoLocks

\* HistoryCollector::collect_all_browser_histories(search_term)
CallCollectAllBrowserHistories(search_term) ==
    /\ ret' = Ret("collect_all_browser_histories", search_term,
                  CollectAllBrowserHistoriesOf(files.browsers, search_term))
    /\ UNCHANGED <<tables, now, background, calls, view, scans>>

CollectNext == \E search_term \in {<<>>, NameLs} : CallCollectAllBrowserHistories(search_term)

CollectSpec == CollectInit /\ [][CollectNext]_vars

\* The databases found under the browsers' paths
DatabasesOf(browser) ==
    IF browser.browser_type = "Firefox"
    THEN UNION {{browser.paths[d].profiles[i] : i \in DOMAIN browser.paths[d].profiles} :
                   d \in DOMAIN browser.paths}
    ELSE {browser.paths[i] : i \in DOMAIN browser.paths}

AllDatabases == UNION {DatabasesOf(files.browsers[b]) : b \in DOMAIN files.browsers}

\* Nothing fails but the copy or the query of a database.
OnlyCopyOrQueryFails ==
    /\ \A b \in DOMAIN files.browsers :
           files.browsers[b].browser_type = "Firefox" =>
               \A d \in DOMAIN files.browsers[b].paths :
                   files.browsers[b].paths[d].state # "unreadable"
    /\ \A db \in AllDatabases : db.state # "entry_error"

InResult(e) == \E k \in DOMAIN ret.result : ret.result[k] = e

\* C31: when the copy or the query of some databases fails and nothing else does, the
\* result of collect_all_browser_histories holds every entry read from every database
\* that was copied and queried, of the same browser and of the other.
C31_OtherSourcesKept ==
    (ret.op = "collect_all_browser_histories" /\ OnlyCopyOrQueryFails) =>
        \A db \in AllDatabases :
            db.state = "ok" =>
                LET read == ReadHistoryDb(db.rows, ret.arg)
                IN  \A k \in DOMAIN read : InResult(read[k])

\* The first Firefox profile cannot be copied, the first database of Chrome cannot be
\* queried, and the second profile and the second database of Chrome are read.
C31_Witness ==
    /\ ret.op = "collect_all_browser_histories"
    /\ ret.arg = <<>>
    /\ OnlyCopyOrQueryFails
    /\ \E b, c \in DOMAIN files.browsers :
           /\ files.browsers[b].browser_type = "Firefox"
           /\ files.browsers[b].paths[1].state = "ok"
           /\ Len(files.browsers[b].paths[1].profiles) = 2
           /\ files.browsers[b].paths[1].profiles[1].state = "copy_fails"
           /\ files.browsers[b].paths[1].profiles[2].state = "ok"
           /\ InResult(files.browsers[b].paths[1].profiles[2].rows[1])
           /\ files.browsers[c].browser_type = "Chrome"
           /\ files.browsers[c].paths[1].state = "query_fails"
           /\ files.browsers[c].paths[2].state = "ok"
           /\ InResult(files.browsers[c].paths[2].rows[1])

---------------------------------------------------------------------------
(* get_history_entries_for_query called from several threads: each statement that
   takes a mutex is a step of its own *)

Readers == {1, 2}
MaxCalls == 2

Reader(pc, query, entries, returned) ==
    [pc |-> pc, query |-> query, entries |-> entries, returned |-> returned]

ReaderInit ==
    /\ actions = <<>>
    /\ program_items = <<>>
    /\ desktop_items = <<>>
    /\ action_executions = <<>>
    /\ now = 0
    /\ discovered = EnvNone
    /\ ret = Idle
    /\ calls = <<>>
    /\ filter = <<>>
    /\ selected_index = 0
    /\ filtered_actions = <<>>
    /\ scans = <<>>
    /\ handler_rows = <<>>
    /\ history_cache = [some |-> FALSE, entries |-> <<>>]
    /\ last_cache_update = UNIX_EPOCH
    /\ seconds = 0
    /\ history_dbs = BrowserDatabases
    /\ files = NoFiles
    /\ readers = [t \in Readers |-> Reader("idle", <<>>, <<>>, 0)]
    /\ locks = NoLocks

ReaderFrame == <<tables, now, discovered, files, seconds, history_dbs, calls, view, scans>>

\* What the call of the reader t returns
ReaderReturn(t, entries, collected) ==
    Ret("get_history_entries_for_query", readers[t].query,
        [entries |-> entries, collected |-> collected, reader |-> t])

\* The reader t calls get_history_entries_for_query(query)
BeginCall(t, query) ==
    /\ readers[t].pc = "idle"
    /\ readers[t].returned < MaxCalls
    /\ readers' = [readers EXCEPT ![t].pc = IF query = <<>> THEN "lock_cache" ELSE "search",
                                  ![t].query = query,
                                  ![t].entries = <<>>]
    /\ UNCHANGED <<ReaderFrame, ret, locks, history_cache, last_cache_update>>

\* let cache_mutex = HISTORY_CACHE.lock().unwrap();
LockCache(t) ==
    /\ readers[t].pc = "lock_cache"
    /\ locks.cache = 0
    /\ locks' = [locks EXCEPT !.cache = t]
    /\ readers' = [readers EXCEPT ![t].pc = "lock_last_update"]
    /\ UNCHANGED <<ReaderFrame, ret, history_cache, last_cache_update>>

\* let last_update_mutex = LAST_CACHE_UPDATE.lock().unwrap();
LockLastUpdate(t) ==
    /\ readers[t].pc = "lock_last_update"
    /\ locks.last_update = 0
    /\ locks' = [locks EXCEPT !.last_update = t]
    /\ readers' = [readers EXCEPT ![t].pc = "check"]
    /\ UNCHANGED <<ReaderFrame, ret, history_cache, last_cache_update>>

\* A faulty variant of CheckCache: the two guards are kept while the browsers'
\* databases are collected.
CheckCacheKeepLocks(t) ==
    /\ readers[t].pc = "check"
    /\ IF history_cache.some
          /\ Elapsed(last_cache_update, SystemTimeNow(now, seconds)) < CacheTtlSecs
       THEN /\ readers' = [readers EXCEPT ![t].pc = "idle",
                                          ![t].entries = history_cache.entries,
                                          ![t].returned = @ + 1]
            /\ ret' = ReaderReturn(t, history_cache.entries, FALSE)
            /\ locks' = NoLocks
       ELSE /\ readers' = [readers EXCEPT ![t].pc = "refresh"]
            /\ UNCHANGED <<ret, locks>>
    /\ UNCHANGED <<ReaderFrame, history_cache, last_cache_update>>

\* The test of the cache under both guards: a cached list younger than five minutes
\* is returned (the guards go out of scope), otherwise both guards are dropped
CheckCache(t) ==
    /\ readers[t].pc = "check"
    /\ IF history_cache.some
          /\ Elapsed(last_cache_update, SystemTimeNow(now, seconds)) < CacheTtlSecs
       THEN /\ readers' = [readers EXCEPT ![t].pc = "idle",
                                          ![t].entries = history_cache.entries,
                                          ![t].returned = @ + 1]
            /\ ret' = ReaderReturn(t, history_cache.entries, FALSE)
       ELSE /\ readers' = [readers EXCEPT ![t].pc = "refresh"]
            /\ UNCHANGED ret
    /\ locks' = NoLocks
    /\ UNCHANGED <<ReaderFrame, history_cache, last_cache_update>>

ReaderQueries == {<<>>, NameFire}

\* refresh_history_cache on the databases and the queries of this specification
RefreshedEntries ==
    [dbs \in {BrowserDatabases} |->
        [query \in ReaderQueries |-> RefreshHistoryCache(dbs, query)]]

\* let entries = Self::refresh_history_cache("");
Refresh(t) ==
    /\ readers[t].pc = "refresh"
    /\ readers' = [readers EXCEPT ![t].pc = "store_cache",
                                  ![t].entries = RefreshedEntries[history_dbs][<<>>]]
    /\ UNCHANGED <<ReaderFrame, ret, locks, history_cache, last_cache_update>>

\* let mut cache = HISTORY_CACHE.lock().unwrap(); *cache = Some(entries.clone());
StoreCache(t) ==
    /\ readers[t].pc = "store_cache"
    /\ locks.cache = 0
    /\ locks' = [locks EXCEPT !.cache = t]
    /\ history_cache' = [some |-> TRUE, entries |-> readers[t].entries]
    /\ readers' = [readers EXCEPT ![t].pc = "store_last_update"]
    /\ UNCHANGED <<ReaderFrame, ret, last_cache_update>>

\* let mut last_update = LAST_CACHE_UPDATE.lock().unwrap();
\* *last_update = SystemTime::now(); entries  (both guards go out of scope)
StoreLastUpdate(t) ==
    /\ readers[t].pc = "store_last_update"
    /\ locks.last_update = 0
    /\ last_cache_update' = SystemTimeNow(now, seconds)
    /\ locks' = [locks EXCEPT !.cache = 0]
    /\ readers' = [readers EXCEPT ![t].pc = "idle", ![t].returned = @ + 1]
    /\ ret' = ReaderReturn(t, readers[t].entries, TRUE)
    /\ UNCHANGED <<ReaderFrame, history_cache>>

\* Self::refresh_history_cache(query) for a query that is not empty
Search(t) ==
    /\ readers[t].pc = "search"
    /\ readers' = [readers EXCEPT
                       ![t].pc = "idle",
                       ![t].entries = RefreshedEntries[history_dbs][readers[t].query],
                       ![t].returned = @ + 1]
    /\ ret' = ReaderReturn(t, RefreshedEntries[history_dbs][readers[t].query], TRUE)
    /\ UNCHANGED <<ReaderFrame, locks, history_cache, last_cache_update>>

\* The statements of a call that has begun
ReaderStep(t) ==
    \/ LockCache(t)
    \/ LockLastUpdate(t)
    \/ CheckCache(t)
    \/ Refresh(t)
    \/ StoreCache(t)
    \/ StoreLastUpdate(t)
    \/ Search(t)

ReaderNext ==
    \/ \E t \in Readers : \E query \in ReaderQueries : BeginCall(t, query)
    \/ \E t \in Readers : ReaderStep(t)
    \/ Wait

ReaderSpec == ReaderInit /\ [][ReaderNext]_vars

\* Every thread that can run does run: a call that has begun takes its next statement
\* if that statement stays possible.
ReaderFairSpec == ReaderSpec /\ \A t \in Readers : WF_vars(ReaderStep(t))

\* The readers whose refresh is in progress: the cache was found missing or old, and
\* the call has not returned
Refreshing == {t \in Readers : readers[t].pc \in {"refresh", "store_cache", "store_last_update"}}

\* C32: while the refresh of one caller is in progress no other caller of
\* get_history_entries_for_query("") is collecting the browsers' databases too: the
\* other caller waits for a mutex or returns the cached list.
C32_OneRefreshAtATime == DOMAIN readers = Readers => Cardinality(Refreshing) <= 1

\* The mutexes held by the reader t
HeldBy(t) == {m \in {"cache", "last_update"} : locks[m] = t}

\* last_update is never held without cache, and nothing is held while collecting.
LockOrder ==
    DOMAIN readers = Readers =>
        \A t \in Readers :
            /\ "last_update" \in HeldBy(t) => "cache" \in HeldBy(t)
            /\ readers[t].pc \in {"refresh", "search", "idle"} => HeldBy(t) = {}

\* C39: concurrent calls of get_history_entries_for_query take the cache mutex before
\* the last-refresh mutex, hold neither while collecting, and every call that has
\* begun returns.
C39_EveryCallReturns ==
    /\ []LockOrder
    /\ \A t \in Readers : (readers[t].pc # "idle") ~> (readers[t].pc = "idle")

\* One reader holds the cache mutex to store its refresh while the other waits for
\* it at the start of its call.
C39_Witness ==
    /\ DOMAIN readers = Readers
    /\ readers[1].pc = "store_last_update"
    /\ locks.cache = 1
    /\ readers[2].pc = "lock_cache"
    /\ readers[2].returned = 1

---------------------------------------------------------------------------
(* The view after the background scan *)

\* A scan task finishes in this step.
ScanCompletes ==
    \E i \in DOMAIN scans :
        i \in DOMAIN scans' /\ scans[i].state = "spawned" /\ scans'[i].state = "done"

\* C33: when a scan task completes under the empty filter, the list the view holds
\* right after it has an item for every action the store then holds (the stores of
\* this specification hold fewer than ten).
C33_ScanRefreshesList ==
    [][(ScanCompletes /\ filter' = <<>>) =>
           \A i \in DOMAIN actions' :
               \E k \in DOMAIN filtered_actions' :
                   filtered_actions'[k].id = Dynamic(actions'[i].id)]_vars

---------------------------------------------------------------------------
(* Queries of another connection while scan_system runs, one statement at a time *)

ObserveNext ==
    \/ \E w \in ScannerIds : InsertActionStep(w)
    \/ \E w \in ScannerIds : SelectIdStep(w)
    \/ \E w \in ScannerIds : InsertItemStep(w)
    \/ \E flt \in {<<>>, NameFire} : CallGetActionsFiltered(flt)

ObserveSpec == RaceInit /\ [][ObserveNext]_vars

\* C34: in every state of the store, between the statements of an insert too, each
\* actions row has the item row of its kind and id, and a query that was made
\* returned a list.
C34_ItemForEveryAction ==
    /\ \A i \in DOMAIN actions : HasItem(CurrentStore, actions[i])
    /\ ret.op = "get_actions_filtered" => ret.result.ok

---------------------------------------------------------------------------
(* The ids of the items made of history entries, and the executions logged for them *)

\* "https://example.org/": the twenty characters that the urls of one site share
SitePrefix ==
    <<"h", "t", "t", "p", "s", ":", "/", "/", "e", "x", "a", "m", "p", "l", "e", ".",
      "o", "r", "g", "/">>

\* Two pages of one site, the site's front page, a page of another address, and an
\* address made of digits
IdUrls == {SitePrefix \o <<"a">>, SitePrefix \o <<"b">>, SitePrefix, UrlFire, <<"1">>}

MaxRows == 2

\* The databases of one browser with up to MaxRows pages, each visited at its own time
IdDatabases ==
    UNION {{<< [i \in 1..n |-> HistoryEntry(NameFire, urls[i], 1, i)] >> :
               urls \in {u \in [1..n -> IdUrls] : \A i, j \in 1..n : i # j => u[i] # u[j]}} :
           n \in 0..MaxRows}

IdInit ==
    /\ actions = <<>>
    /\ program_items = <<>>
    /\ desktop_items = <<>>
    /\ action_executions = <<>>
    /\ now = 0
    /\ discovered = EnvNone
    /\ ret = Idle
    /\ calls = <<>>
    /\ filter = <<>>
    /\ selected_index = 0
    /\ filtered_actions = <<>>
    /\ scans = <<>>
    /\ handler_rows = <<>>
    /\ history_cache = [some |-> FALSE, entries |-> <<>>]
    /\ last_cache_update = UNIX_EPOCH
    /\ seconds = 0
    /\ history_dbs \in IdDatabases
    /\ files = NoFiles
    /\ readers = <<>>
    /\ locks = NoLocks

\* BrowserHistoryFactory::create_actions_for_query(query) on the browsers' databases:
\* the items, each with the entry it was made of
CallCreateActionsForQuery(query) ==
    /\ ~IsBlank(query)
    /\ ret' = Ret("create_actions_for_query", query,
                  Map(RefreshHistoryCache(history_dbs, query),
                      LAMBDA e : [item |-> CreateActionFromEntry(e), entry |-> e]))
    /\ action_executions' = <<>>
    /\ calls' = <<>>
    /\ UNCHANGED <<actions, program_items, desktop_items, handler_rows, now, background,
                   view, scans>>

\* ActionItem::execute of the k-th item of the list: the execution is logged under
\* the item's id
CallExecuteItem(k) ==
    /\ ret.op = "create_actions_for_query"
    /\ k \in DOMAIN ret.result
    /\ Len(action_executions) < MaxRuns
    /\ action_executions' = ExecuteItem(action_executions, ret.result[k].item, "ok", now)
    /\ calls' = Append(calls, Call("execute", <<>>, ret.result[k].entry.url, FALSE, 0))
    /\ UNCHANGED <<actions, program_items, desktop_items, handler_rows, now, background,
                   view, scans, ret>>

IdNext ==
    \/ \E query \in {NameFire, <<"o", "r", "g">>} : CallCreateActionsForQuery(query)
    \/ \E k \in 1..MaxRows : CallExecuteItem(k)

IdSpec == IdInit /\ [][IdNext]_vars

\* How often the entry of this url was executed since the list was made
ExecutedTimes(url) == Cardinality({i \in DOMAIN calls : calls[i].target = url})

\* C35: the items made of history entries of different urls have different ids, no
\* such id is the id of a builtin handler or the text of a row id, and the execution
\* count of an item is the number of times that item was executed.
C35_DistinctIds ==
    ret.op = "create_actions_for_query" =>
        /\ \A i, j \in DOMAIN ret.result :
               ret.result[i].entry.url # ret.result[j].entry.url
                   => ret.result[i].item.id # ret.result[j].item.id
        /\ \A i \in DOMAIN ret.result :
               /\ \A b \in DOMAIN BuiltinActions :
                      AsStr(ret.result[i].item.id) # BuiltinActions[b]
               /\ \A n \in DOMAIN Decimal : AsStr(ret.result[i].item.id) # Decimal[n]
        /\ \A i \in DOMAIN ret.result :
               GetExecutionCount(action_executions, AsStr(ret.result[i].item.id))
                   = ExecutedTimes(ret.result[i].entry.url)

---------------------------------------------------------------------------
(* The direct tier on a store of six applications that all match one filter *)

\* fire matches the filter "fire" exactly, firea .. fired by prefix, afire as a substring
EnvDirect ==
    [executables |-> <<>>,
     applications |-> << Application(NameFire, "fire"),
                         Application(NameFire \o <<"a">>, "firea"),
                         Application(NameFire \o <<"b">>, "fireb"),
                         Application(NameFire \o <<"c">>, "firec"),
                         Application(NameFire \o <<"d">>, "fired"),
                         Application(NameAfire, "afire") >>]

DirectInit == DatabaseInit /\ discovered = EnvDirect

DirectNext ==
    \/ CallScanSystem
    \/ \E action_id \in {"1", "6"} : CallLogExecution(action_id)
    \/ \E flt \in {NameFire, NameAfire} : CallGetActionsFiltered(flt)
    \/ Tick

DirectSpec == DirectInit /\ [][DirectNext]_vars

\* The relevance row_to_action_definition computes for the action in the direct tier
DirectRelevanceOf(a) ==
    DirectRelevance(BaseScoreNum(action_executions, a.id, now),
                    MatchQuality(a.searchname, ToLowercase(ret.arg)),
                    SearchScore(SplitWhitespace(ToLowercase(ret.arg)), a.searchname))

\* C36: in the result of a query with a non-blank filter, no action is of lower
\* relevance than an action that matches the filter directly and is not in the result.
C36_TopOfDirectMatches ==
    (IsQuery /\ ~IsBlank(ret.arg) /\ ret.result.ok) =>
        \A i \in DirectActions :
            actions[i].id \notin ResultIds =>
                \A k \in DOMAIN ResultList :
                    ResultList[k].relevance >= DirectRelevanceOf(actions[i])

---------------------------------------------------------------------------
(* Navigation in lists of every length around ITEMS_TO_SHOW *)

MaxItems == 31

\* A list as set_filter leaves it when the browsers' histories match the filter in n
\* pages (the environments of the other specifications give shorter lists)
ListOfLen(n) ==
    [k \in 1..n |-> Item(Builtin(HistoryIdText([i \in 1..k |-> "a"])), VisitBase + 1,
                         HistoryBoost)]

NavFilters == {<<>>, <<":">>, UrlFilter}

NavInit ==
    /\ actions = <<>>
    /\ program_items = <<>>
    /\ desktop_items = <<>>
    /\ action_executions = <<>>
    /\ now = 0
    /\ discovered = EnvNone
    /\ ret = Idle
    /\ calls = <<>>
    /\ filter = <<"a">>
    /\ selected_index = 0
    /\ filtered_actions \in {ListOfLen(n) : n \in {0, 1, 2, ITEMS_TO_SHOW - 1, ITEMS_TO_SHOW, MaxItems}}
    /\ scans = <<>>
    /\ handler_rows = <<>>
    /\ history_cache = [some |-> FALSE, entries |-> <<>>]
    /\ last_cache_update = UNIX_EPOCH
    /\ seconds = 0
    /\ history_dbs = BrowserDatabases
    /\ files = NoFiles
    /\ readers = <<>>
    /\ locks = NoLocks

NavNext ==
    \/ \E new_filter \in NavFilters : SetFilter(new_filter)
    \/ NavigateUp
    \/ NavigateDown

NavSpec == NavInit /\ [][NavNext]_vars

\* The number of items shown
ShownLen == Min(ItemsLen, ITEMS_TO_SHOW)

\* C37: under set_filter, navigate_up and navigate_down the selected index is below
\* the number of items shown whenever there is an item; set_filter sets it to 0,
\* navigate_down from the last shown item goes to 0 and navigate_up from 0 to the
\* last shown item.
C37_SelectionInRange ==
    /\ [](ItemsLen > 0 => selected_index < ShownLen)
    /\ [][(\E new_filter \in NavFilters : SetFilter(new_filter)) => selected_index' = 0]_vars
    /\ [][(NavigateDown /\ ItemsLen > 0 /\ selected_index = ShownLen - 1)
              => selected_index' = 0]_vars
    /\ [][(NavigateUp /\ ItemsLen > 0 /\ selected_index = 0)
              => selected_index' = ShownLen - 1]_vars

\* The list has more items than are shown and the selection is on the last one shown.
C37_Witness ==
    /\ Len(filtered_actions) > ITEMS_TO_SHOW
    /\ ~CommandMode
    /\ selected_index = ITEMS_TO_SHOW - 1

---------------------------------------------------------------------------
(* Command lines of every shape, typed and run *)

\* ":" alone and with a blank, an unknown command, enable and disable without and
\* with the id of a handler, registered or not
CommandLines ==
    {<<":">>, <<":", " ">>, <<":">> \o NameLs,
     <<":">> \o NameDisable, <<":">> \o NameEnable,
     CmdDisable, <<":">> \o NameEnable \o <<" ">> \o GoogleSearchText,
     <<":">> \o NameDisable \o <<" ">> \o NameLs,
     <<":">> \o NameEnable \o <<" ">> \o NameLs}

CommandInit ==
    /\ actions = <<>>
    /\ program_items = <<>>
    /\ desktop_items = <<>>
    /\ action_executions = <<>>
    /\ now = 0
    /\ discovered = EnvNone
    /\ ret = Idle
    /\ calls = <<>>
    /\ filter = <<>>
    /\ selected_index = 0
    /\ filtered_actions = RegistrySetFilter(EmptyStore, <<>>, <<>>, 0)
    /\ scans = <<>>
    /\ handler_rows = <<>>
    /\ history_cache = [some |-> FALSE, entries |-> <<>>]
    /\ last_cache_update = UNIX_EPOCH
    /\ seconds = 0
    /\ history_dbs = BrowserDatabases
    /\ files = NoFiles
    /\ readers = <<>>
    /\ locks = NoLocks

CommandNext ==
    \/ \E new_filter \in CommandLines : SetFilter(new_filter)
    \/ RunCommand

CommandSpec == CommandInit /\ [][CommandNext]_vars

\* No command, a command that is not registered, or no argument for enable / disable
Malformed(command_line) ==
    \/ CommandArgs(command_line) = <<>>
    \/ CommandArgs(command_line)[1] \notin CommandNames
    \/ Len(CommandArgs(command_line)) < 2

\* C38: execute_command returns a result for every command line, and for a line
\* without a command, with an unknown command or without the argument of enable or
\* disable the result is a failure and no handler's flag has changed.
C38_MalformedCommandFails ==
    [][ret'.op = "command" =>
          /\ ret'.result \in {"success", "failure"}
          /\ Malformed(ret'.arg) => (ret'.result = "failure" /\ UNCHANGED handler_rows)]_vars

====
